---- MODULE Spec2Model ----
(***************************************************************************)
(* web2figma streaming transport.                                          *)
(*                                                                         *)
(*   sender    StreamController + ImageProcessor   (src/unnamed/part_001)  *)
(*   receiver  figma.ui.onmessage and its handlers (src/INDEX.md 301-601)  *)
(*   buffer    ImageAssembler                      (src/INDEX.md 1403-1486)*)
(*                                                                         *)
(* Specifications:                                                         *)
(*   SpecAsm  the ImageAssembler driven by arbitrary calls                 *)
(*   SpecRT   one buffer split by streamImageChunks and reassembled        *)
(*   SpecCtl  one session of StreamController.streamExtractedPage          *)
(*   SpecRx   one session of the plugin's stream handlers                  *)
(*   SpecNorm one call of ImageProcessor.fetchAndConvert                   *)
(*   SpecCtlFair SpecCtl with the Controller's own steps running on        *)
(*   SpecRxFair  SpecRx with the timer of the finalization poll firing     *)
(*   SpecRxLive  SpecRxFair with every awaited materialization settling    *)
(*   SpecRxNext  SpecRx followed by the TOKENS envelope of the next session*)
(*   SpecConn    the requests of one connection of the scraper server      *)
(*   SpecLegacy  node_chunk messages and the processBufferedNodes loop     *)
(***************************************************************************)
EXTENDS Integers, Sequences, FiniteSets, TLC

VARIABLES
    \* ---- ImageAssembler (receiver) ----
    buffers,    \* ImageAssembler.buffers : nodeId -> ChunkBuffer (partial map)
    now,        \* Date.now() on the receiver, in ms
    last,       \* the last call made on the assembler and what it returned
    done,       \* ids assembled successfully with no chunk delivered since
    ended,      \* ids whose entry was assembled or evicted at some time
    calls,      \* addChunk calls made so far
    \* ---- round trip driver ----
    rtBuf,      \* the source buffer (node._imageBuffer) being streamed
    rtSize,     \* CONFIG.IMAGE_CHUNK_SIZE of that run
    rtIdx,      \* chunkIndex of streamImageChunks' inner loop
    rtPc,       \* "off" | "stream" | "assemble" | "done"
    \* ---- StreamController + ImageProcessor (sender) ----
    cfg,        \* CONFIG as read from the environment
    payload,    \* StreamPayload: [tokens, fonts : BOOLEAN] (present or not)
    nodes,      \* payload.nodes, mutated in place by the controller
    spc,        \* where streamExtractedPage stands
    wave,       \* i of processAllImages' loop
    inflight,   \* positions of the nodes whose processImageForNode is pending
    bi,         \* i of streamNodes' loop
    sn,         \* position in streamedNodes of streamImageChunks' outer loop
    ci,         \* chunkIndex of streamImageChunks' inner loop
    seqNo,      \* StreamController.sequenceNumber
    totalNodes, \* StreamController.totalNodes
    stats,      \* ImageProcessor.stats
    wsOpen,     \* ws.readyState === WebSocket.OPEN
    emitted,    \* every message handed to send(), in order
    wireN,      \* how many of them ws.send() transmitted (a prefix)
    raised,     \* an exception reached streamExtractedPage's catch
    \* ---- plugin stream handlers (receiver) ----
    items,      \* the items of the session's NODES envelope; an item's id is its position
    rxPc,       \* the envelope the UI posts next: "off" | "tokens" | "nodes" | "chunks" | "over"
    delivered,  \* the IMAGE_CHUNK messages dispatched so far, as <<nodeId, chunkIndex>>
    redeliveries, \* how many of the dispatched IMAGE_CHUNK messages were repeats
    pending,    \* the keys of pendingImageNodes
    created,    \* streamCreatedNodes : id -> "real" | "placeholder"
    processed,  \* totalStreamNodesProcessed
    made,       \* per id: objects appended to the page with the item's content (real),
                \* placeholders appended, createEnhancedNode calls that returned null
    nbPc,       \* handleStreamNodeBatch: "none" | "await" | "done"
    nbPos,      \* the item whose createEnhancedNode handleStreamNodeBatch awaits
    matTasks,   \* per id: createPendingImageNode calls suspended at await createEnhancedNode
    fin,        \* handleStreamComplete: [pc, startTime, sleepAt]
    lateStart,  \* ids whose createPendingImageNode got to its await while
                \* handleStreamComplete was in its poll loop
    \* ---- ImageProcessor.fetchAndConvert (sender) ----
    norm,       \* one call: the source, what fetch and sharp do with it, the result
    \* ---- wss.on('connection') (scraper server) ----
    conn,       \* one connection: [req, channel], the handlers of its messages
                \* and every envelope passed to ws.send(), in order
    \* ---- legacy node_chunk path (receiver) ----
    legacy      \* [nodeBuffer, isProcessing, loops, arrived, late, built, nulls]

asmVars == <<buffers, now, last, done, ended, calls>>
rtVars == <<rtBuf, rtSize, rtIdx, rtPc>>
ctlVars == <<cfg, payload, nodes, spc, wave, inflight, bi, sn, ci, seqNo, totalNodes,
             stats, wsOpen, emitted, wireN, raised>>
nmVars == <<norm>>
cnVars == <<conn>>
lgVars == <<legacy>>
rxVars == <<items, rxPc, delivered, redeliveries, pending, created, processed, made,
            nbPc, nbPos, matTasks, fin, lateStart>>
vars == <<buffers, now, last, done, ended, calls, rtBuf, rtSize, rtIdx, rtPc,
          cfg, payload, nodes, spc, wave, inflight, bi, sn, ci, seqNo, totalNodes,
          stats, wsOpen, emitted, wireN, raised,
          items, rxPc, delivered, redeliveries, pending, created, processed, made,
          nbPc, nbPos, matTasks, fin, lateStart, norm, conn, legacy>>

(***************************************************************************)
(* Bounds of the model.                                                    *)
(***************************************************************************)
MaxIdx == 1          \* chunk indices 0..MaxIdx offered to addChunk
MaxTotal == 2        \* totalChunks values 1..MaxTotal offered to addChunk
MaxCalls == 2        \* addChunk calls of one run of SpecAsm
MaxBufLen == 4       \* longest source buffer of the round trip
MaxChunkSize == 3    \* largest chunk size of the round trip
MaxNodes == 2        \* longest payload.nodes of a sender session
MaxItems == 2        \* most items of the NODES envelope of a receiver session
MaxRedeliveries == 1 \* IMAGE_CHUNK messages dispatched a second time

\* the node ids the assembler is driven with
AsmIds == {1, 2}

(***************************************************************************)
(* Helpers.                                                                *)
(***************************************************************************)
Min(a, b) == IF a < b THEN a ELSE b

\* Math.ceil(a / b) for a >= 0, b > 0
CeilDiv(a, b) == (a + b - 1) \div b

\* all sequences over S of length lo..hi
SeqsOf(S, lo, hi) == UNION {[1..n -> S] : n \in lo..hi}

\* map without the key k
Without(m, k) == [j \in DOMAIN m \ {k} |-> m[j]]

(***************************************************************************)
(* ImageAssembler.                                                         *)
(***************************************************************************)
TIMEOUT_MS == 30000

\* new Uint8Array(data): every element is taken modulo 2^8
ToUint8Array(data) == [i \in 1..Len(data) |-> data[i] % 256]

\* mutant: a new entry counts a chunk before one is stored
NewChunkBufferCounted(totalChunks, t) ==
    [chunks |-> <<>>, totalChunks |-> totalChunks, receivedChunks |-> 1, createdAt |-> t]

NewChunkBuffer(totalChunks, t) ==
    [chunks |-> <<>>, totalChunks |-> totalChunks, receivedChunks |-> 0, createdAt |-> t]

\* the chunk is stored only when its index is not stored yet
StoreChunkKeepFirst(buffer, chunkIndex, data) ==
    IF chunkIndex \in DOMAIN buffer.chunks
    THEN buffer
    ELSE [buffer EXCEPT !.chunks = (chunkIndex :> ToUint8Array(data)) @@ buffer.chunks,
                        !.receivedChunks = buffer.receivedChunks + 1]

\* mutant: a repeated index overwrites the bytes and is counted again
StoreChunkOverwrite(buffer, chunkIndex, data) ==
    [buffer EXCEPT !.chunks = (chunkIndex :> ToUint8Array(data)) @@ buffer.chunks,
                   !.receivedChunks = buffer.receivedChunks + 1]

StoreChunk(buffer, chunkIndex, data) == StoreChunkKeepFirst(buffer, chunkIndex, data)

\* addChunk(nodeId, chunkIndex, data, totalChunks): the buffers afterwards
addChunk(bufs, nodeId, chunkIndex, data, totalChunks, t) ==
    LET withEntry == IF nodeId \in DOMAIN bufs THEN bufs
                     ELSE (nodeId :> NewChunkBuffer(totalChunks, t)) @@ bufs
    IN [withEntry EXCEPT ![nodeId] = StoreChunk(withEntry[nodeId], chunkIndex, data)]

isComplete(bufs, nodeId) ==
    /\ nodeId \in DOMAIN bufs
    /\ bufs[nodeId].receivedChunks = bufs[nodeId].totalChunks

NoBytes == [ok |-> FALSE, bytes |-> <<>>]

\* buffer.chunks.get(index): has = FALSE stands for undefined
ChunkGetLookup(chunks, index) ==
    IF index \in DOMAIN chunks THEN [has |-> TRUE, bytes |-> chunks[index]]
    ELSE [has |-> FALSE, bytes |-> <<>>]

\* mutant: an absent chunk is taken for an empty one
ChunkGetOrEmpty(chunks, index) ==
    IF index \in DOMAIN chunks THEN [has |-> TRUE, bytes |-> chunks[index]]
    ELSE [has |-> TRUE, bytes |-> <<>>]

ChunkGet(chunks, index) == ChunkGetLookup(chunks, index)

RECURSIVE AssembleLoop(_, _, _)
\* the loop of assemble from `index` on: null as soon as a chunk is missing,
\* else the chunks index..total-1 laid out one after another
AssembleLoop(chunks, index, total) ==
    IF index >= total THEN [ok |-> TRUE, bytes |-> <<>>]
    ELSE LET chunk == ChunkGet(chunks, index)
             rest == AssembleLoop(chunks, index + 1, total)
         IN IF ~chunk.has \/ ~rest.ok THEN NoBytes
            ELSE [ok |-> TRUE, bytes |-> chunk.bytes \o rest.bytes]

\* what assemble(nodeId) returns: null (ok = FALSE) or the assembled bytes
assembleRet(bufs, nodeId) ==
    IF ~isComplete(bufs, nodeId) THEN NoBytes
    ELSE AssembleLoop(bufs[nodeId].chunks, 0, bufs[nodeId].totalChunks)

AssembleDeletes(bufs, nodeId) ==
    IF assembleRet(bufs, nodeId).ok THEN Without(bufs, nodeId) ELSE bufs

\* mutant: the entry is kept after a successful assembly
AssembleKeeps(bufs, nodeId) == bufs

\* the buffers after assemble(nodeId)
assembleBufs(bufs, nodeId) == AssembleDeletes(bufs, nodeId)

ExpiredStrict(buffer, t) == t - buffer.createdAt > TIMEOUT_MS

\* mutant: an entry exactly TIMEOUT_MS old is evicted as well
ExpiredAtTimeout(buffer, t) == t - buffer.createdAt >= TIMEOUT_MS

Expired(buffer, t) == ExpiredStrict(buffer, t)

\* cleanupTimedOut(): the ids it returns, and the buffers afterwards
cleanupIds(bufs, t) == {id \in DOMAIN bufs : Expired(bufs[id], t)}

cleanupBufs(bufs, t) == [id \in DOMAIN bufs \ cleanupIds(bufs, t) |-> bufs[id]]

(***************************************************************************)
(* StreamController.streamImageChunks: the split of one buffer.            *)
(***************************************************************************)
\* buffer.slice(start, end) with 0-based start, exclusive end
Slice(buf, start, end) == [i \in 1..(end - start) |-> buf[start + i]]

ChunkStartAtIndex(chunkIndex, size) == chunkIndex * size

\* mutant: every chunk starts one byte late
ChunkStartOffByOne(chunkIndex, size) == chunkIndex * size + 1

ChunkStart(chunkIndex, size) == ChunkStartAtIndex(chunkIndex, size)

\* mutant: the end of the last chunk is not clamped to the buffer
ChunkEndUnclamped(start, size, len) == start + size

ChunkEnd(start, size, len) == Min(start + size, len)

\* imageChunkRef.totalChunks
TotalChunks(len, size) == CeilDiv(len, size)

\* Array.from(buffer.slice(start, end)) of chunk `chunkIndex`; slice clamps
\* its bounds to the buffer
ChunkData(buf, chunkIndex, size) ==
    LET start == ChunkStart(chunkIndex, size)
        end == ChunkEnd(start, size, Len(buf))
    IN Slice(buf, Min(start, Len(buf)), Min(end, Len(buf)))

(***************************************************************************)
(* SpecAsm: the ImageAssembler under arbitrary calls.                      *)
(***************************************************************************)
WireData == {<<7>>, <<8, 255>>}

NoCall == [op |-> "none", id |-> 0, idx |-> 0, ok |-> FALSE, bytes |-> <<>>, ids |-> {}]

RtOff == /\ rtBuf = <<>> /\ rtSize = 1 /\ rtIdx = 0 /\ rtPc = "off"

\* no image buffer
NoBuffer == [enc |-> "", dims |-> <<0, 0>>, encodes |-> 0]

\* a ProcessingResult not yet filled in
NoResult ==
    [success |-> FALSE, buffer |-> NoBuffer, originalFormat |-> "", convertedFormat |-> "",
     error |-> ""]

\* no connection
CnOff == conn = [req |-> <<>>, channel |-> <<>>]

\* no node_chunk message
LgOff ==
    legacy = [nodeBuffer |-> <<>>, isProcessing |-> FALSE, loops |-> {}, arrived |-> 0,
              late |-> 0, built |-> <<>>, nulls |-> 0]

NmOff ==
    norm = [pc |-> "off", kind |-> "", mime |-> "", enc |-> "", dims |-> <<0, 0>>,
            sharpReads |-> FALSE, pngOk |-> FALSE, fetch |-> "", comma |-> FALSE,
            format |-> "", result |-> NoResult]

ZeroStats ==
    [totalImages |-> 0, inlineImages |-> 0, streamedImages |-> 0, failedImages |-> 0,
     totalBytesProcessed |-> 0]

\* no sender session
CtlOff ==
    /\ cfg = [threshold |-> 0, chunkSize |-> 1, concurrency |-> 1]
    /\ payload = [tokens |-> FALSE, fonts |-> FALSE]
    /\ nodes = <<>>
    /\ spc = "off"
    /\ wave = 0 /\ inflight = {} /\ bi = 0 /\ sn = 1 /\ ci = 0
    /\ seqNo = 0 /\ totalNodes = 0
    /\ stats = ZeroStats
    /\ wsOpen = FALSE
    /\ emitted = <<>> /\ wireN = 0
    /\ raised = FALSE

\* no receiver session
RxOff ==
    /\ items = <<>>
    /\ rxPc = "off"
    /\ delivered = {} /\ redeliveries = 0
    /\ pending = {}
    /\ created = <<>>
    /\ processed = 0
    /\ made = <<>>
    /\ nbPc = "none" /\ nbPos = 0
    /\ matTasks = <<>>
    /\ fin = [pc |-> "none", startTime |-> 0, sleepAt |-> 0]
    /\ lateStart = {}

InitAsm ==
    /\ buffers = <<>>
    /\ now = 0
    /\ last = NoCall
    /\ done = {}
    /\ ended = {}
    /\ calls = 0
    /\ RtOff
    /\ NmOff
    /\ CnOff
    /\ LgOff
    /\ CtlOff
    /\ RxOff

AddChunk(nodeId, chunkIndex, data, totalChunks) ==
    /\ buffers' = addChunk(buffers, nodeId, chunkIndex, data, totalChunks, now)
    /\ last' = [NoCall EXCEPT !.op = "addChunk", !.id = nodeId, !.idx = chunkIndex,
                              !.bytes = data]
    /\ done' = done \ {nodeId}
    /\ calls' = calls + 1
    /\ UNCHANGED <<now, ended>>

Assemble(nodeId) ==
    LET ret == assembleRet(buffers, nodeId)
    IN /\ buffers' = assembleBufs(buffers, nodeId)
       /\ last' = [NoCall EXCEPT !.op = "assemble", !.id = nodeId, !.ok = ret.ok,
                                 !.bytes = ret.bytes]
       /\ done' = IF ret.ok THEN done \cup {nodeId} ELSE done
       /\ ended' = IF ret.ok THEN ended \cup {nodeId} ELSE ended
       /\ UNCHANGED <<now, calls>>

CleanupTimedOut ==
    /\ buffers' = cleanupBufs(buffers, now)
    /\ last' = [NoCall EXCEPT !.op = "cleanup", !.ids = cleanupIds(buffers, now)]
    /\ ended' = ended \cup cleanupIds(buffers, now)
    /\ UNCHANGED <<now, done, calls>>

\* the instants at which the assembler is called: around the eviction age
Instants == {0, 1, TIMEOUT_MS, TIMEOUT_MS + 1}

\* Date.now() moves on to a later instant
Tick(t) ==
    /\ t > now
    /\ now' = t
    /\ UNCHANGED <<buffers, last, done, ended, calls>>

NextAsm ==
    \/ \E nodeId \in AsmIds, chunkIndex \in 0..MaxIdx, data \in WireData,
          totalChunks \in 1..MaxTotal :
          calls < MaxCalls /\ AddChunk(nodeId, chunkIndex, data, totalChunks)
          /\ UNCHANGED <<rtVars, nmVars, cnVars, lgVars, ctlVars, rxVars>>
    \/ \E nodeId \in AsmIds : Assemble(nodeId) /\ UNCHANGED <<rtVars, nmVars, cnVars, lgVars, ctlVars, rxVars>>
    \/ CleanupTimedOut /\ UNCHANGED <<rtVars, nmVars, cnVars, lgVars, ctlVars, rxVars>>
    \/ \E t \in Instants : Tick(t) /\ UNCHANGED <<rtVars, nmVars, cnVars, lgVars, ctlVars, rxVars>>

SpecAsm == InitAsm /\ [][NextAsm]_vars

(***************************************************************************)
(* SpecRT: streamImageChunks splits one buffer, the chunks are delivered   *)
(* in order to addChunk, then assemble is called.                          *)
(***************************************************************************)
SourceBytes == {0, 255}

InitRT ==
    /\ buffers = <<>>
    /\ now = 0
    /\ last = NoCall
    /\ done = {}
    /\ ended = {}
    /\ calls = 0
    /\ rtBuf \in SeqsOf(SourceBytes, 1, MaxBufLen)
    /\ rtSize \in 1..MaxChunkSize
    /\ rtIdx = 0
    /\ rtPc = "stream"
    /\ NmOff
    /\ CnOff
    /\ LgOff
    /\ CtlOff
    /\ RxOff

\* one iteration of the inner loop: chunk rtIdx goes over the wire to handleImageChunk
StreamChunk ==
    /\ rtPc = "stream"
    /\ rtIdx < TotalChunks(Len(rtBuf), rtSize)
    /\ AddChunk(1, rtIdx, ChunkData(rtBuf, rtIdx, rtSize), TotalChunks(Len(rtBuf), rtSize))
    /\ rtIdx' = rtIdx + 1
    /\ UNCHANGED <<rtBuf, rtSize, rtPc, nmVars, cnVars, lgVars, ctlVars, rxVars>>

StreamEnd ==
    /\ rtPc = "stream"
    /\ rtIdx >= TotalChunks(Len(rtBuf), rtSize)
    /\ rtPc' = "assemble"
    /\ UNCHANGED <<asmVars, rtBuf, rtSize, rtIdx, nmVars, cnVars, lgVars, ctlVars, rxVars>>

AssembleStreamed ==
    /\ rtPc = "assemble"
    /\ Assemble(1)
    /\ rtPc' = "done"
    /\ UNCHANGED <<rtBuf, rtSize, rtIdx, nmVars, cnVars, lgVars, ctlVars, rxVars>>

NextRT == StreamChunk \/ StreamEnd \/ AssembleStreamed

SpecRT == InitRT /\ [][NextRT]_vars

(***************************************************************************)
(* SpecCtl: one session of StreamController.streamExtractedPage, with the  *)
(* ImageProcessor it drives.  Buffers are represented by their length.     *)
(***************************************************************************)
IMAGE_SIZE_THRESHOLD == 102400
IMAGE_CHUNK_SIZE == 65536
MAX_CONCURRENT_IMAGES == 5
BATCH_SIZE == 50

Max(a, b) == IF a > b THEN a ELSE b

RECURSIVE SortedSeq(_)
\* the elements of a set of numbers in ascending order
SortedSeq(S) ==
    IF S = {} THEN <<>>
    ELSE LET m == CHOOSE x \in S : \A y \in S : x <= y
         IN <<m>> \o SortedSeq(S \ {m})

\* the values CONFIG takes: the defaults, or an override from the environment
Configs ==
    [threshold : {IMAGE_SIZE_THRESHOLD, 100000},
     chunkSize : {IMAGE_CHUNK_SIZE},
     concurrency : {MAX_CONCURRENT_IMAGES, 0}]

Absent == 0 - 1

\* an IRNode as the producer hands it over: a frame, an image without url,
\* an image with url
FreshNode(type, url) ==
    [type |-> type, url |-> url, imageSource |-> FALSE, proc |-> "none",
     data |-> Absent, buf |-> Absent, hasRef |-> FALSE,
     ref |-> [totalSize |-> 0, totalChunks |-> 0, chunkSize |-> 0]]

NodeTemplates == {FreshNode("FRAME", FALSE), FreshNode("IMAGE", FALSE), FreshNode("IMAGE", TRUE)}

\* what fetchAndConvert yields: a failure (Absent) or a buffer of that length
FetchResults == {Absent, 99999, 100000, 102400}

\* attachImageSources
attachImageSources(ns) ==
    [i \in 1..Len(ns) |->
        IF ns[i].type = "IMAGE" /\ ns[i].url THEN [ns[i] EXCEPT !.imageSource = TRUE] ELSE ns[i]]

\* processAllImages: imageNodes, as positions in nodes
ImageNodes(ns) == SortedSeq({i \in 1..Len(ns) : ns[i].type = "IMAGE" /\ ns[i].imageSource})

\* streamImageChunks: streamedNodes, as positions in nodes
StreamedNodes(ns) == SortedSeq({i \in 1..Len(ns) : ns[i].hasRef})

Concurrency == Max(1, cfg.concurrency)

\* mutant: every image node is started at once
WaveBatchUnbounded(ns, w) ==
    LET im == ImageNodes(ns)
    IN {im[k] : k \in (w + 1)..Len(im)}

\* imageNodes.slice(wave, wave + concurrency), as a set of positions
WaveBatch(ns, w) ==
    LET im == ImageNodes(ns)
    IN {im[k] : k \in (w + 1)..Min(w + Concurrency, Len(im))}

ShouldStreamAtLeast(len, threshold) == len >= threshold

\* mutant: the boundary is closed on the other side
ShouldStreamAbove(len, threshold) == len > threshold

\* ImageProcessor.processImageForNode: shouldStream
ShouldStream(len, threshold) == ShouldStreamAtLeast(len, threshold)

\* mutant: a failed image is counted as an inline one
StatsAfterFailedAsInline(st, r) ==
    IF r = Absent
    THEN [st EXCEPT !.inlineImages = @ + 1]
    ELSE IF ShouldStream(r, cfg.threshold)
         THEN [st EXCEPT !.totalBytesProcessed = @ + r, !.streamedImages = @ + 1]
         ELSE [st EXCEPT !.totalBytesProcessed = @ + r, !.inlineImages = @ + 1]

\* mutant: a failed image is counted nowhere but in totalImages
StatsAfterFailedUncounted(st, r) ==
    IF r = Absent
    THEN st
    ELSE IF ShouldStream(r, cfg.threshold)
         THEN [st EXCEPT !.totalBytesProcessed = @ + r, !.streamedImages = @ + 1]
         ELSE [st EXCEPT !.totalBytesProcessed = @ + r, !.inlineImages = @ + 1]

\* processImageForNode after fetchAndConvert has settled with r: the stats
StatsAfter(st, r) ==
    IF r = Absent
    THEN [st EXCEPT !.failedImages = @ + 1]
    ELSE IF ShouldStream(r, cfg.threshold)
         THEN [st EXCEPT !.totalBytesProcessed = @ + r, !.streamedImages = @ + 1]
         ELSE [st EXCEPT !.totalBytesProcessed = @ + r, !.inlineImages = @ + 1]

\* the callback of batch.map once processImageForNode has returned: the node
NodeAfter(n, r) ==
    IF r = Absent
    THEN [n EXCEPT !.proc = "error"]
    ELSE IF ShouldStream(r, cfg.threshold)
         THEN [n EXCEPT !.proc = "ok", !.hasRef = TRUE, !.buf = r,
                        !.ref = [totalSize |-> r,
                                 totalChunks |-> TotalChunks(r, cfg.chunkSize),
                                 chunkSize |-> cfg.chunkSize]]
         ELSE [n EXCEPT !.proc = "ok", !.data = r]

\* cloneForTransport: JSON.parse(JSON.stringify(node)) keeps every own
\* property of the node, _imageBuffer included while it is still attached
cloneForTransport(ns, i) ==
    [id |-> i, type |-> ns[i].type, data |-> ns[i].data, hasRef |-> ns[i].hasRef,
     ref |-> ns[i].ref, buf |-> ns[i].buf]

\* mutant: the sequence number is read but not advanced
SendSameNumber(type, body) ==
    /\ emitted' = Append(emitted, [type |-> type, sequenceNumber |-> seqNo, body |-> body])
    /\ seqNo' = seqNo
    /\ wireN' = IF wsOpen THEN wireN + 1 ELSE wireN

\* mutant: send hands the message to the socket whatever its readyState
SendAnyState(type, body) ==
    /\ emitted' = Append(emitted, [type |-> type, sequenceNumber |-> seqNo, body |-> body])
    /\ seqNo' = seqNo + 1
    /\ wireN' = wireN + 1

\* send(message): the message gets the next sequence number where it is
\* built, and is transmitted only while the channel is open
Send(type, body) ==
    /\ emitted' = Append(emitted, [type |-> type, sequenceNumber |-> seqNo, body |-> body])
    /\ seqNo' = seqNo + 1
    /\ wireN' = IF wsOpen THEN wireN + 1 ELSE wireN

NoSend == UNCHANGED <<emitted, seqNo, wireN>>

\* the steps of streamExtractedPage's try block, in the order of the code
StepsInOrder == <<"images", "tokens", "fonts", "nodes", "chunks", "complete", "done">>

\* mutant: COMPLETE is sent before the image chunks
StepsCompleteEarly == <<"images", "tokens", "fonts", "nodes", "complete", "chunks", "done">>

Steps == StepsInOrder

\* the step that follows step `pc`
NextStep(pc) == Steps[(CHOOSE k \in 1..Len(Steps) : Steps[k] = pc) + 1]

\* mutant: the catch block goes on to sendComplete
CatchThenComplete == "complete"

\* streamExtractedPage returns after the catch block
CatchThenReturn == "done"

AfterCatch == CatchThenReturn

\* mutant: slice(i, i + BATCH_SIZE - 1)
BatchEndShort(i, n) == Min(i + BATCH_SIZE - 1, n)

\* the end of nodes.slice(i, i + BATCH_SIZE)
BatchEndSlice(i, n) == Min(i + BATCH_SIZE, n)

BatchEnd(i, n) == BatchEndSlice(i, n)

\* pages of one and of several batches of plain frames
LongLists ==
    {[i \in 1..n |-> FreshNode("FRAME", FALSE)] :
        n \in {BATCH_SIZE, BATCH_SIZE + 1, 2 * BATCH_SIZE + 1}}

InitCtl ==
    /\ buffers = <<>> /\ now = 0 /\ last = NoCall /\ done = {} /\ ended = {} /\ calls = 0
    /\ RtOff
    /\ NmOff
    /\ CnOff
    /\ LgOff
    /\ cfg \in Configs
    /\ payload \in [tokens : BOOLEAN, fonts : BOOLEAN]
    /\ nodes \in SeqsOf(NodeTemplates, 0, MaxNodes) \cup LongLists
    /\ spc = "start"
    /\ wave = 0 /\ inflight = {} /\ bi = 0 /\ sn = 1 /\ ci = 0
    /\ seqNo = 0 /\ totalNodes = 0
    /\ stats = ZeroStats
    /\ wsOpen = TRUE
    /\ emitted = <<>> /\ wireN = 0
    /\ raised = FALSE
    /\ RxOff

\* streamExtractedPage up to processAllImages' loop
CtlStart ==
    /\ spc = "start"
    /\ totalNodes' = Len(nodes)
    /\ nodes' = attachImageSources(nodes)
    /\ spc' = IF Len(ImageNodes(nodes')) = 0 THEN NextStep("images") ELSE "waveStart"
    /\ NoSend
    /\ UNCHANGED <<cfg, payload, wave, inflight, bi, sn, ci, stats, wsOpen, raised>>

\* a wave starts: processImageForNode runs for each node of the batch up to
\* its await of fetchAndConvert
WaveStart ==
    /\ spc = "waveStart"
    /\ inflight' = WaveBatch(nodes, wave)
    /\ stats' = [stats EXCEPT !.totalImages = @ + Cardinality(WaveBatch(nodes, wave))]
    /\ spc' = "waveWait"
    /\ NoSend
    /\ UNCHANGED <<cfg, payload, nodes, wave, bi, sn, ci, totalNodes, wsOpen, raised>>

\* mutant: a failed item rejects the wave's Promise.all, which then waits
\* for no other item
WaveAbortedByFailure(inf, i, r) == IF r = Absent THEN {} ELSE inf \ {i}

\* the callback of batch.map for node i has returned (processImageForNode
\* returns null on failure, it does not throw): Promise.all still waits for
\* the rest of the wave
WaveAfterSettle(inf, i, r) == inf \ {i}

\* fetchAndConvert of one node of the wave settles
SettleImage(i, r) ==
    /\ spc = "waveWait"
    /\ i \in inflight
    /\ stats' = StatsAfter(stats, r)
    /\ nodes' = [nodes EXCEPT ![i] = NodeAfter(nodes[i], r)]
    /\ inflight' = WaveAfterSettle(inflight, i, r)
    /\ NoSend
    /\ UNCHANGED <<cfg, payload, spc, wave, bi, sn, ci, totalNodes, wsOpen, raised>>

\* mutant: the count of processed items is not clamped to the list
ProcessedUnclamped(w, n) == w + Concurrency

\* processAllImages: processed = Math.min(i + concurrency, imageNodes.length)
ProcessedAfterWave(w, n) == Min(w + Concurrency, n)

\* Promise.all of the wave has resolved: PROGRESS, then the next wave or the end
WaveEnd ==
    /\ spc = "waveWait"
    /\ inflight = {}
    /\ Send("PROGRESS", [stage |-> "processing_images",
                         current |-> ProcessedAfterWave(wave, Len(ImageNodes(nodes))),
                         total |-> Len(ImageNodes(nodes))])
    /\ wave' = wave + Concurrency
    /\ spc' = IF wave' < Len(ImageNodes(nodes)) THEN "waveStart" ELSE NextStep("images")
    /\ UNCHANGED <<cfg, payload, nodes, inflight, bi, sn, ci, totalNodes, stats, wsOpen, raised>>

SendTokens ==
    /\ spc = "tokens"
    /\ IF payload.tokens THEN Send("TOKENS", [n |-> 0]) ELSE NoSend
    /\ spc' = NextStep("tokens")
    /\ UNCHANGED <<cfg, payload, nodes, wave, inflight, bi, sn, ci, totalNodes, stats,
                   wsOpen, raised>>

SendFonts ==
    /\ spc = "fonts"
    /\ IF payload.fonts THEN Send("FONTS", [n |-> 0]) ELSE NoSend
    /\ spc' = NextStep("fonts")
    /\ UNCHANGED <<cfg, payload, nodes, wave, inflight, bi, sn, ci, totalNodes, stats,
                   wsOpen, raised>>

\* one iteration of streamNodes' loop
StreamNodesBatch ==
    /\ spc = "nodes"
    /\ bi < Len(nodes)
    /\ Send("NODES", [items |-> [k \in 1..(BatchEnd(bi, Len(nodes)) - bi) |->
                                    cloneForTransport(nodes, bi + k)]])
    /\ bi' = bi + BATCH_SIZE
    /\ UNCHANGED <<cfg, payload, nodes, spc, wave, inflight, sn, ci, totalNodes, stats,
                   wsOpen, raised>>

\* JSON.stringify throws in an iteration of streamNodes' loop
StreamNodesThrow ==
    /\ spc = "nodes"
    /\ bi < Len(nodes)
    /\ raised' = TRUE
    /\ spc' = "catch"
    /\ NoSend
    /\ UNCHANGED <<cfg, payload, nodes, wave, inflight, bi, sn, ci, totalNodes, stats, wsOpen>>

StreamNodesEnd ==
    /\ spc = "nodes"
    /\ bi >= Len(nodes)
    /\ spc' = NextStep("nodes")
    /\ NoSend
    /\ UNCHANGED <<cfg, payload, nodes, wave, inflight, bi, sn, ci, totalNodes, stats,
                   wsOpen, raised>>

\* one iteration of streamImageChunks' inner loop
StreamImageChunk ==
    /\ spc = "chunks"
    /\ sn <= Len(StreamedNodes(nodes))
    /\ LET i == StreamedNodes(nodes)[sn]
           start == ChunkStart(ci, cfg.chunkSize)
       IN /\ nodes[i].buf # Absent
          /\ ci < nodes[i].ref.totalChunks
          /\ Send("IMAGE_CHUNK", [nodeId |-> i, chunkIndex |-> ci,
                                  totalChunks |-> nodes[i].ref.totalChunks,
                                  len |-> ChunkEnd(start, cfg.chunkSize, nodes[i].buf) - start])
    /\ ci' = ci + 1
    /\ UNCHANGED <<cfg, payload, nodes, spc, wave, inflight, bi, sn, totalNodes, stats,
                   wsOpen, raised>>

\* the chunks of a node are out: _imageBuffer is deleted, PROGRESS is sent
StreamImageDone ==
    /\ spc = "chunks"
    /\ sn <= Len(StreamedNodes(nodes))
    /\ LET i == StreamedNodes(nodes)[sn]
       IN /\ nodes[i].buf # Absent
          /\ ci >= nodes[i].ref.totalChunks
          /\ nodes' = [nodes EXCEPT ![i].buf = Absent]
    /\ Send("PROGRESS", [stage |-> "streaming_images", current |-> sn,
                         total |-> Len(StreamedNodes(nodes))])
    /\ sn' = sn + 1
    /\ ci' = 0
    /\ UNCHANGED <<cfg, payload, spc, wave, inflight, bi, totalNodes, stats, wsOpen, raised>>

StreamImagesEnd ==
    /\ spc = "chunks"
    /\ sn > Len(StreamedNodes(nodes))
    /\ spc' = NextStep("chunks")
    /\ NoSend
    /\ UNCHANGED <<cfg, payload, nodes, wave, inflight, bi, sn, ci, totalNodes, stats,
                   wsOpen, raised>>

sendComplete ==
    /\ spc = "complete"
    /\ Send("COMPLETE", [totalNodes |-> totalNodes, totalImages |-> stats.totalImages,
                         inlineImages |-> stats.inlineImages,
                         streamedImages |-> stats.streamedImages])
    /\ spc' = NextStep("complete")
    /\ UNCHANGED <<cfg, payload, nodes, wave, inflight, bi, sn, ci, totalNodes, stats,
                   wsOpen, raised>>

sendError ==
    /\ spc = "catch"
    /\ Send("ERROR", [n |-> 0])
    /\ spc' = AfterCatch
    /\ UNCHANGED <<cfg, payload, nodes, wave, inflight, bi, sn, ci, totalNodes, stats,
                   wsOpen, raised>>

\* the peer goes away: readyState leaves OPEN for good
CloseChannel ==
    /\ spc \notin {"off", "done"}
    /\ wsOpen
    /\ wsOpen' = FALSE
    /\ NoSend
    /\ UNCHANGED <<cfg, payload, nodes, spc, wave, inflight, bi, sn, ci, totalNodes, stats,
                   raised>>

NextCtl ==
    /\ UNCHANGED <<asmVars, rtVars, nmVars, cnVars, lgVars, rxVars>>
    /\ \/ CtlStart
       \/ WaveStart
       \/ \E i \in 1..MaxNodes, r \in FetchResults : SettleImage(i, r)
       \/ WaveEnd
       \/ SendTokens
       \/ SendFonts
       \/ StreamNodesBatch
       \/ StreamNodesThrow
       \/ StreamNodesEnd
       \/ StreamImageChunk
       \/ StreamImageDone
       \/ StreamImagesEnd
       \/ sendComplete
       \/ sendError
       \/ CloseChannel

SpecCtl == InitCtl /\ [][NextCtl]_vars

\* the steps streamExtractedPage takes by itself: timers fire, fetches settle
\* (fetchAndConvert aborts after IMAGE_TIMEOUT_MS), synchronous code runs on
CtlProgress ==
    /\ UNCHANGED <<asmVars, rtVars, nmVars, cnVars, lgVars, rxVars>>
    /\ \/ CtlStart
       \/ WaveStart
       \/ \E i \in 1..MaxNodes, r \in FetchResults : SettleImage(i, r)
       \/ WaveEnd
       \/ SendTokens
       \/ SendFonts
       \/ StreamNodesBatch
       \/ StreamNodesEnd
       \/ StreamImageChunk
       \/ StreamImageDone
       \/ StreamImagesEnd
       \/ sendComplete
       \/ sendError

\* SpecCtl with the event loop of the sender running on
SpecCtlFair == SpecCtl /\ WF_vars(CtlProgress)

(***************************************************************************)
(* SpecNorm: one call of ImageProcessor.fetchAndConvert.  The source is    *)
(* described by what its bytes really are (enc), its pixel dimensions and  *)
(* the media type announced for it; fetch and sharp succeed or fail.       *)
(***************************************************************************)
MAX_IMAGE_DIMENSION == 4096

\* what the bytes of a source can be; "other" is anything sharp and the
\* magic-byte test do not know (a bitmap, an HTML page)
Encodings == {"png", "jpeg", "gif", "webp", "avif", "svg", "other"}

\* the image subtype named by the content-type header or by the header of a
\* data URL; "none" when it names no image type
MimeTypes == {"png", "jpeg", "jpg", "gif", "webp", "svg", "avif", "none"}

\* metadata.width and metadata.height; 0 stands for undefined
Dimensions == {<<100, 100>>, <<4096, 4096>>, <<4097, 100>>, <<100, 4097>>, <<0, 0>>}

\* detectFormat: the content type first, then the magic bytes
detectFormat(enc, contentType) ==
    IF contentType = "png" THEN "png"
    ELSE IF contentType \in {"jpeg", "jpg"} THEN "jpeg"
    ELSE IF contentType = "gif" THEN "gif"
    ELSE IF contentType = "webp" THEN "webp"
    ELSE IF contentType = "svg" THEN "svg"
    ELSE IF enc \in {"png", "jpeg", "gif", "webp"} THEN enc
    ELSE "unknown"

\* detectFormatFromDataUrl(header) || 'unknown'
detectFormatFromDataUrl(mime) ==
    IF mime = "none" THEN "unknown"
    ELSE IF mime = "jpg" THEN "jpeg"
    ELSE mime

\* resize(4096, 4096, {fit: 'inside'}): both sides scaled by the same factor
FitInside(d) ==
    LET big == Max(d[1], d[2])
    IN <<(d[1] * MAX_IMAGE_DIMENSION) \div big, (d[2] * MAX_IMAGE_DIMENSION) \div big>>

\* pipeline.png().toBuffer()
PngOf(buffer, needsResize) ==
    [enc |-> "png",
     dims |-> IF needsResize THEN FitInside(buffer.dims) ELSE buffer.dims,
     encodes |-> buffer.encodes + 1]

\* convertIfNeeded: sharp reads the metadata or throws; whatever is thrown
\* inside is caught and the buffer is returned as it came
convertIfNeeded(buffer, format, sharpReads, pngOk) ==
    LET needsConversion == format \in {"webp", "avif", "unknown"}
        needsResize == \/ buffer.dims[1] # 0 /\ buffer.dims[1] > MAX_IMAGE_DIMENSION
                       \/ buffer.dims[2] # 0 /\ buffer.dims[2] > MAX_IMAGE_DIMENSION
    IN IF ~sharpReads THEN [buffer |-> buffer, converted |-> FALSE]
       ELSE IF needsConversion \/ needsResize
            THEN IF pngOk
                 THEN [buffer |-> PngOf(buffer, needsResize), converted |-> TRUE]
                 ELSE [buffer |-> buffer, converted |-> FALSE]
            ELSE [buffer |-> buffer, converted |-> FALSE]

\* the bytes fetched or decoded from the source
SourceBuffer == [enc |-> norm.enc, dims |-> norm.dims, encodes |-> 0]

InitNorm ==
    /\ buffers = <<>> /\ now = 0 /\ last = NoCall /\ done = {} /\ ended = {} /\ calls = 0
    /\ RtOff
    /\ CtlOff
    /\ RxOff
    /\ CnOff
    /\ LgOff
    /\ \E kind \in {"http", "data"}, mime \in MimeTypes, enc \in Encodings, dims \in Dimensions,
          sharpReads \in BOOLEAN, pngOk \in BOOLEAN,
          fetch \in {"rejects", "notOk", "ok"}, comma \in BOOLEAN :
          /\ kind = "http" => comma
          /\ kind = "data" => fetch = "ok"
          /\ norm = [pc |-> "fetch", kind |-> kind, mime |-> mime, enc |-> enc, dims |-> dims,
                     sharpReads |-> sharpReads, pngOk |-> pngOk, fetch |-> fetch,
                     comma |-> comma, format |-> "", result |-> NoResult]

\* fetchAndConvert / fromDataUrl up to convertIfNeeded: a failure is
\* returned, or the format is detected
NormFetch ==
    /\ norm.pc = "fetch"
    /\ norm' =
          IF norm.kind = "data"
          THEN IF ~norm.comma
               THEN [norm EXCEPT !.pc = "done", !.result.error = "Invalid data URL"]
               ELSE [norm EXCEPT !.pc = "convert", !.format = detectFormatFromDataUrl(norm.mime)]
          ELSE IF norm.fetch = "rejects"
               THEN [norm EXCEPT !.pc = "done", !.result.error = "fetch failed"]
          ELSE IF norm.fetch = "notOk"
               THEN [norm EXCEPT !.pc = "done", !.result.error = "HTTP status"]
          ELSE [norm EXCEPT !.pc = "convert", !.format = detectFormat(norm.enc, norm.mime)]
    /\ UNCHANGED <<asmVars, rtVars, cnVars, lgVars, ctlVars, rxVars>>

\* convertIfNeeded has settled: the successful ProcessingResult
NormConvert ==
    /\ norm.pc = "convert"
    /\ LET conv == convertIfNeeded(SourceBuffer, norm.format, norm.sharpReads, norm.pngOk)
       IN norm' = [norm EXCEPT
                     !.pc = "done",
                     !.result = [success |-> TRUE,
                                 buffer |-> conv.buffer,
                                 originalFormat |-> norm.format,
                                 convertedFormat |-> IF conv.converted THEN "png"
                                                     ELSE norm.format,
                                 error |-> ""]]
    /\ UNCHANGED <<asmVars, rtVars, cnVars, lgVars, ctlVars, rxVars>>

NextNorm == NormFetch \/ NormConvert

SpecNorm == InitNorm /\ [][NextNorm]_vars

(***************************************************************************)
(* SpecRx: one session of the plugin's stream handlers.  The UI posts the  *)
(* envelopes in send order; a handler that awaits is suspended and other   *)
(* messages are dispatched meanwhile.                                      *)
(***************************************************************************)
STREAM_ASSEMBLY_TIMEOUT_MS == 10000
POLL_MS == 100

\* an item is materialized at once (it has inline bytes, or no media because
\* its fetch failed on the sender), or carries imageChunkRef {isStreamed, totalChunks}
ItemKinds ==
    {[chunked |-> FALSE, total |-> 0, failed |-> FALSE],
     [chunked |-> FALSE, total |-> 0, failed |-> TRUE],
     [chunked |-> TRUE, total |-> 1, failed |-> FALSE],
     [chunked |-> TRUE, total |-> 2, failed |-> FALSE]}

\* the bytes of an IMAGE_CHUNK message
ChunkBytes == <<7>>

ItemIds == 1..Len(items)

\* per item id: objects appended to the page (real, placeholder), calls of
\* createEnhancedNode that returned null (skipped), IMAGE_ASSEMBLED
\* notifications posted to the UI (assembled)
NoOutcome == [real |-> 0, placeholder |-> 0, skipped |-> 0, assembled |-> 0]

\* mutant: no item is deferred
DeferredNever(item) == FALSE

\* handleStreamNodeBatch: node.imageChunkRef?.isStreamed
Deferred(item) == item.chunked

\* handleStreamNodeBatch's loop from item pos on: chunked items are deferred
\* until an item has to be materialized (the loop awaits) or the batch ends
RECURSIVE DeferLeading(_, _, _)

DeferLeading(its, pos, pend) ==
    IF pos > Len(its) THEN [pos |-> pos, pending |-> pend]
    ELSE IF Deferred(its[pos]) THEN DeferLeading(its, pos + 1, pend \cup {pos})
    ELSE [pos |-> pos, pending |-> pend]

\* streamCreatedNodes.set(id, object) for every id of ids
Recorded(map, ids, kind) ==
    [id \in DOMAIN map \cup ids |-> IF id \in ids THEN kind ELSE map[id]]

\* createEnhancedNode appended the item's object to the page
AppendReal(m, id) == [m EXCEPT ![id].real = @ + 1]

\* createEnhancedNode caught an error and returned null
ReturnNull(m, id) == [m EXCEPT ![id].skipped = @ + 1]

\* figma.ui.postMessage({type: 'IMAGE_ASSEMBLED', nodeId})
PostAssembled(m, id) == [m EXCEPT ![id].assembled = @ + 1]

\* a neutral object standing for the item, appended to the page for every id of ids
createPlaceholderForFailedImage(m, ids) ==
    [id \in DOMAIN m |-> IF id \in ids THEN [m[id] EXCEPT !.placeholder = @ + 1] ELSE m[id]]

\* pendingImageNodes.delete, after the awaited materialization
PendingAfterMaterialize(pend, id) == pend \ {id}

InitRx ==
    /\ buffers = <<>> /\ now = 0 /\ last = NoCall /\ done = {} /\ ended = {} /\ calls = 0
    /\ RtOff
    /\ NmOff
    /\ CnOff
    /\ LgOff
    /\ CtlOff
    /\ items \in SeqsOf(ItemKinds, 1, MaxItems)
    /\ rxPc = "tokens"
    /\ delivered = {} /\ redeliveries = 0
    /\ pending = {}
    /\ created = <<>>
    /\ processed = 0
    /\ made = [id \in ItemIds |-> NoOutcome]
    /\ nbPc = "none" /\ nbPos = 0
    /\ matTasks = [id \in ItemIds |-> 0]
    /\ fin = [pc |-> "none", startTime |-> 0, sleepAt |-> 0]
    /\ lateStart = {}

\* TOKENS: resetStreamState
DispatchTokens ==
    /\ rxPc = "tokens"
    /\ rxPc' = "nodes"
    /\ pending' = {}
    /\ created' = <<>>
    /\ processed' = 0
    /\ UNCHANGED <<asmVars, items, lateStart, delivered, redeliveries, made, nbPc, nbPos, matTasks, fin>>

\* NODES: handleStreamNodeBatch runs up to its first await
DispatchNodes ==
    /\ rxPc \in {"tokens", "nodes"}
    /\ rxPc' = "chunks"
    /\ LET w == DeferLeading(items, 1, pending)
       IN /\ pending' = w.pending
          /\ nbPos' = w.pos
          /\ nbPc' = IF w.pos > Len(items) THEN "done" ELSE "await"
    /\ UNCHANGED <<asmVars, items, lateStart, delivered, redeliveries, created, processed, made,
                   matTasks, fin>>

\* mutant: a failed materialization ends the batch
LoopEndsOnNull(r, pos) == IF r THEN pos + 1 ELSE Len(items) + 1

\* handleStreamNodeBatch: the for loop goes on to the next node whether
\* createEnhancedNode returned an object or null
LoopAfter(r, pos) == pos + 1

\* createEnhancedNode settles for the item handleStreamNodeBatch awaits, with an
\* object (r) or null; the loop goes on to its next await
ResumeNodes(r) ==
    /\ nbPc = "await"
    /\ created' = IF r THEN Recorded(created, {nbPos}, "real") ELSE created
    /\ processed' = IF r THEN processed + 1 ELSE processed
    /\ made' = IF r THEN AppendReal(made, nbPos) ELSE ReturnNull(made, nbPos)
    /\ LET w == DeferLeading(items, LoopAfter(r, nbPos), pending)
       IN /\ pending' = w.pending
          /\ nbPos' = w.pos
          /\ nbPc' = IF w.pos > Len(items) THEN "done" ELSE "await"
    /\ UNCHANGED <<asmVars, items, lateStart, rxPc, delivered, redeliveries, matTasks, fin>>

\* IMAGE_CHUNK: handleImageChunk, and createPendingImageNode up to its await.
\* A chunk is first dispatched after NODES and before COMPLETE, in index order;
\* a chunk dispatched before may be dispatched again.
DispatchChunk(id, idx) ==
    /\ rxPc \in {"chunks", "over"}
    /\ id \in ItemIds
    /\ items[id].chunked
    /\ idx \in 0..(items[id].total - 1)
    /\ IF <<id, idx>> \in delivered
       THEN /\ redeliveries < MaxRedeliveries
            /\ redeliveries' = redeliveries + 1
       ELSE /\ rxPc = "chunks"
            /\ idx = 0 \/ <<id, idx - 1>> \in delivered
            /\ UNCHANGED redeliveries
    /\ delivered' = delivered \cup {<<id, idx>>}
    /\ LET added == addChunk(buffers, id, idx, ChunkBytes, items[id].total, now)
           starts == /\ isComplete(added, id)
                     /\ id \in pending
                     /\ assembleRet(added, id).ok
       IN /\ buffers' = IF starts THEN assembleBufs(added, id) ELSE added
          /\ matTasks' = IF starts THEN [matTasks EXCEPT ![id] = @ + 1] ELSE matTasks
          /\ lateStart' = IF starts /\ fin.pc = "sleep" THEN lateStart \cup {id} ELSE lateStart
          /\ ended' = IF starts THEN ended \cup {id} ELSE ended
    /\ UNCHANGED <<now, last, done, calls, items, rxPc, pending, created, processed, made,
                   nbPc, nbPos, fin>>

\* createEnhancedNode settles for a createPendingImageNode call, with an object
\* (r) or null; the call runs to its end
ResumeMaterialize(id, r) ==
    /\ id \in ItemIds
    /\ matTasks[id] > 0
    /\ matTasks' = [matTasks EXCEPT ![id] = @ - 1]
    /\ created' = IF r THEN Recorded(created, {id}, "real") ELSE created
    /\ processed' = IF r THEN processed + 1 ELSE processed
    /\ made' = PostAssembled(IF r THEN AppendReal(made, id) ELSE ReturnNull(made, id), id)
    /\ pending' = PendingAfterMaterialize(pending, id)
    /\ UNCHANGED <<asmVars, items, lateStart, rxPc, delivered, redeliveries, nbPc, nbPos, fin>>

\* mutant: the loop ends only when nothing is pending
KeepsPollingNoBudget(pend, startTime, t) == pend # {}

\* the while condition of handleStreamComplete
KeepsPolling(pend, startTime, t) == pend # {} /\ t - startTime < STREAM_ASSEMBLY_TIMEOUT_MS

\* COMPLETE: handleStreamComplete up to its first sleep, or to its end when
\* nothing is pending
DispatchComplete ==
    /\ rxPc = "chunks"
    /\ rxPc' = "over"
    /\ fin' = IF KeepsPolling(pending, now, now)
              THEN [pc |-> "sleep", startTime |-> now, sleepAt |-> now]
              ELSE [pc |-> "done", startTime |-> now, sleepAt |-> now]
    /\ UNCHANGED <<asmVars, items, lateStart, delivered, redeliveries, pending, created, processed,
                   made, nbPc, nbPos, matTasks>>

\* the instants of a receiver session: around the eviction age and the budget
RxInstants ==
    {POLL_MS, TIMEOUT_MS - POLL_MS, TIMEOUT_MS + POLL_MS,
     TIMEOUT_MS + POLL_MS + STREAM_ASSEMBLY_TIMEOUT_MS}

\* the instants at which the timer of a sleep begun at sleepAt may fire: not
\* before POLL_MS have passed
WakeInstants(startTime, sleepAt, t0) ==
    {t \in RxInstants \cup {startTime + STREAM_ASSEMBLY_TIMEOUT_MS} :
        t >= t0 /\ t - sleepAt >= POLL_MS}

\* mutant: every id the sweep reports gets a placeholder
SweepHitsAll(bufs, pend, t) == cleanupIds(bufs, t)

\* the ids of timedOut that pendingImageNodes.get finds
SweepHits(bufs, pend, t) == cleanupIds(bufs, t) \cap pend

\* the sleep of the poll loop ends at instant t: sweep, placeholders for the
\* evicted pending ids, then either the next sleep or the forced placeholders
\* and the end
PollWake(t) ==
    /\ fin.pc = "sleep"
    /\ t \in WakeInstants(fin.startTime, fin.sleepAt, now)
    /\ now' = t
    /\ LET hit == SweepHits(buffers, pending, t)
           rest == pending \ hit
           again == KeepsPolling(rest, fin.startTime, t)
           forced == IF again THEN {} ELSE rest
       IN /\ buffers' = cleanupBufs(buffers, t)
          /\ ended' = ended \cup cleanupIds(buffers, t)
          /\ pending' = rest \ forced
          /\ created' = Recorded(created, hit \cup forced, "placeholder")
          /\ processed' = processed + Cardinality(hit \cup forced)
          /\ made' = createPlaceholderForFailedImage(made, hit \cup forced)
          /\ fin' = IF again THEN [fin EXCEPT !.sleepAt = t] ELSE [fin EXCEPT !.pc = "done"]
    /\ UNCHANGED <<last, done, calls, items, lateStart, rxPc, delivered, redeliveries, nbPc, nbPos,
                   matTasks>>

\* mutant: an ERROR drops what is pending
ErrorUnwindsPending(pend) == {}

\* handleStreamEnvelope, case 'ERROR': figma.notify only
PendingAfterError(pend) == pend

\* ERROR: the operator is notified; the sender sends nothing after it
DispatchError ==
    /\ rxPc \in {"tokens", "nodes", "chunks"}
    /\ rxPc' = "over"
    /\ pending' = PendingAfterError(pending)
    /\ UNCHANGED <<asmVars, items, lateStart, delivered, redeliveries, created, processed,
                   made, nbPc, nbPos, matTasks, fin>>

\* the channel closes after NODES and before COMPLETE: no envelope follows.
\* figma.ui.onmessage has no branch for such an event (a message of any other
\* type falls through the legacy switch), so no plugin state changes.
ChannelClosed ==
    /\ rxPc = "chunks"
    /\ rxPc' = "closed"
    /\ UNCHANGED <<asmVars, items, lateStart, delivered, redeliveries, pending, created, processed,
                   made, nbPc, nbPos, matTasks, fin>>

\* Date.now() moves on
Advance(t) ==
    /\ t > now
    /\ now' = t
    /\ UNCHANGED <<buffers, last, done, ended, calls, rxVars>>

NextRx ==
    /\ UNCHANGED <<rtVars, nmVars, cnVars, lgVars, ctlVars>>
    /\ \/ DispatchTokens
       \/ DispatchNodes
       \/ \E r \in BOOLEAN : ResumeNodes(r)
       \/ \E id \in 1..MaxItems, idx \in 0..1 : DispatchChunk(id, idx)
       \/ \E id \in 1..MaxItems, r \in BOOLEAN : ResumeMaterialize(id, r)
       \/ DispatchComplete
       \/ \E t \in RxInstants \cup {fin.startTime + STREAM_ASSEMBLY_TIMEOUT_MS} : PollWake(t)
       \/ DispatchError
       \/ ChannelClosed
       \/ \E t \in RxInstants : Advance(t)

SpecRx == InitRx /\ [][NextRx]_vars

\* the timer of the poll loop's sleep fires
SpecRxFair ==
    SpecRx /\ WF_vars(/\ UNCHANGED <<rtVars, nmVars, cnVars, lgVars, ctlVars>>
                      /\ \E t \in RxInstants \cup {fin.startTime + STREAM_ASSEMBLY_TIMEOUT_MS} :
                            PollWake(t))

\* SpecRxFair, and every awaited materialization settles
SpecRxLive ==
    /\ SpecRxFair
    /\ WF_vars(UNCHANGED <<rtVars, nmVars, cnVars, lgVars, ctlVars>> /\ \E r \in BOOLEAN : ResumeNodes(r))
    /\ WF_vars(/\ UNCHANGED <<rtVars, nmVars, cnVars, lgVars, ctlVars>>
               /\ \E id \in 1..MaxItems, r \in BOOLEAN : ResumeMaterialize(id, r))

(***************************************************************************)
(* Claims about the ImageAssembler.                                        *)
(***************************************************************************)

\* C3: round trip. Once the chunks 0..N-1 of a buffer split by
\* streamImageChunks have been delivered in order and assemble has been
\* called, assemble has returned exactly the bytes of the source buffer.
C3_RoundTrip ==
    rtPc = "done" => (last.op = "assemble" /\ last.ok /\ last.bytes = rtBuf)

\* C3 witness: a buffer of several chunks, the last one short, has been
\* reassembled.
C3_Witness ==
    /\ rtPc = "done"
    /\ last.ok
    /\ TotalChunks(Len(rtBuf), rtSize) >= 2
    /\ Len(rtBuf) % rtSize # 0

\* C4: after a successful assemble of an id, and as long as no chunk is
\* delivered for it, the id has no entry, and every further assemble of it
\* returns nothing.
C4_AssembleOnce ==
    /\ [](\A id \in done : id \notin DOMAIN buffers /\ assembleRet(buffers, id) = NoBytes)
    /\ [][(last' # last /\ last'.op = "assemble" /\ last'.id \in done) => ~last'.ok]_vars

\* C4 witness: a second assemble after a success has returned nothing.
C4_Witness ==
    /\ last.op = "assemble"
    /\ ~last.ok
    /\ last.id \in done

\* C5: an addChunk for an index the entry already stores changes nothing:
\* neither the received count nor the stored bytes (so neither what
\* assemble will return).
C5_DuplicateIgnored ==
    [][(/\ last'.op = "addChunk"
        /\ last'.id \in DOMAIN buffers
        /\ last'.idx \in DOMAIN buffers[last'.id].chunks)
       => buffers' = buffers]_vars

\* C5 witness: an index has been redelivered with other bytes, and the
\* entry still holds the bytes of the first delivery, counted once.
C5_Witness ==
    /\ last.op = "addChunk"
    /\ last.id \in DOMAIN buffers
    /\ buffers[last.id].chunks[last.idx] # ToUint8Array(last.bytes)
    /\ buffers[last.id].receivedChunks = Cardinality(DOMAIN buffers[last.id].chunks)

\* C6: an assemble of an entry that lacks an index of [0,totalChunks)
\* returns nothing and leaves the buffers as they were.
C6_FailSafe ==
    [][(/\ last'.op = "assemble"
        /\ last'.id \in DOMAIN buffers
        /\ \E index \in 0..(buffers[last'.id].totalChunks - 1) :
              index \notin DOMAIN buffers[last'.id].chunks)
       => (~last'.ok /\ buffers' = buffers)]_vars

\* C6 witness: assemble has returned nothing for an entry whose received
\* count equals totalChunks (an index of the range is missing).
C6_Witness ==
    /\ last.op = "assemble"
    /\ ~last.ok
    /\ isComplete(buffers, last.id)
    /\ \E index \in 0..(buffers[last.id].totalChunks - 1) :
          index \notin DOMAIN buffers[last.id].chunks

\* C7: a sweep returns and removes exactly the entries created more than
\* 30000 ms before it, and leaves every other entry as it was.
C7_SweepExact ==
    [][(last'.op = "cleanup" /\ now' = now)
       => LET old == {id \in DOMAIN buffers : now - buffers[id].createdAt > 30000}
          IN /\ last'.ids = old
             /\ DOMAIN buffers' = DOMAIN buffers \ old
             /\ \A id \in DOMAIN buffers' : buffers'[id] = buffers[id]]_vars

\* C7 witness: a sweep has evicted an entry and kept an incomplete one that
\* is exactly 30000 ms old.
C7_Witness ==
    /\ last.op = "cleanup"
    /\ last.ids # {}
    /\ \E id \in DOMAIN buffers :
          /\ now - buffers[id].createdAt = 30000
          /\ ~isComplete(buffers, id)

(***************************************************************************)
(* Claims about the sender.                                                *)
(***************************************************************************)
IsInline(n) == n.proc = "ok" /\ n.data # Absent /\ ~n.hasRef

IsChunked(n) == n.proc = "ok" /\ n.hasRef /\ n.data = Absent

\* the final byte length of a processed payload
PayloadLen(n) == IF n.hasRef THEN n.ref.totalSize ELSE n.data

\* C8: a processed payload is chunked exactly when its length is >= the
\* threshold and inline exactly when it is below; with threshold 100000 a
\* payload of 99999 bytes is inline and one of 100000 bytes is chunked.
C8_ThresholdBoundary ==
    \A i \in 1..Len(nodes) :
        nodes[i].proc = "ok" =>
            /\ IsChunked(nodes[i]) <=> PayloadLen(nodes[i]) >= cfg.threshold
            /\ IsInline(nodes[i]) <=> PayloadLen(nodes[i]) < cfg.threshold
            /\ (cfg.threshold = 100000 /\ PayloadLen(nodes[i]) = 99999) => IsInline(nodes[i])
            /\ (cfg.threshold = 100000 /\ PayloadLen(nodes[i]) = 100000) => IsChunked(nodes[i])

\* C8 witness: under threshold 100000 one payload of 99999 bytes has been
\* classified inline and one of 100000 bytes chunked.
C8_Witness ==
    /\ cfg.threshold = 100000
    /\ \E i, j \in 1..Len(nodes) :
          /\ IsInline(nodes[i]) /\ nodes[i].data = 99999
          /\ IsChunked(nodes[j]) /\ nodes[j].ref.totalSize = 100000

TypeAt(k) == emitted[k].type

\* C9 as claimed: when the payload has tokens, the first envelope emitted is
\* TOKENS, and FONTS, if the payload has fonts, is the second: no PROGRESS,
\* NODES or IMAGE_CHUNK comes before either.
C9_TokensFirst ==
    (payload.tokens /\ Len(emitted) >= 1) =>
        /\ TypeAt(1) = "TOKENS"
        /\ (payload.fonts /\ Len(emitted) >= 2) => TypeAt(2) = "FONTS"

\* C10: in a session in which no error is raised, no NODES envelope follows
\* an IMAGE_CHUNK envelope, COMPLETE is emitted at most once and nothing is
\* emitted after it, and when streamExtractedPage has returned COMPLETE is
\* the last envelope (transmitted too if the channel is still open).
C10_CompleteLast ==
    ~raised =>
        /\ \A j, k \in 1..Len(emitted) :
              (TypeAt(j) = "IMAGE_CHUNK" /\ TypeAt(k) = "NODES") => k < j
        /\ \A k \in 1..Len(emitted) : TypeAt(k) = "COMPLETE" => k = Len(emitted)
        /\ spc = "done" =>
              /\ Len(emitted) >= 1
              /\ TypeAt(Len(emitted)) = "COMPLETE"
              /\ wsOpen => wireN = Len(emitted)

\* C10 witness: a session with NODES and IMAGE_CHUNK envelopes has ended
\* with COMPLETE on an open channel.
C10_Witness ==
    /\ spc = "done"
    /\ ~raised
    /\ wsOpen
    /\ \E j, k \in 1..Len(emitted) : TypeAt(j) = "NODES" /\ TypeAt(k) = "IMAGE_CHUNK"
    /\ TypeAt(Len(emitted)) = "COMPLETE"

\* the positions in emitted of the envelopes of one type
Positions(type) == {k \in 1..Len(emitted) : TypeAt(k) = type}

\* the items of the NODES envelopes among the first k envelopes, in send order
RECURSIVE SentItemsUpTo(_)

SentItemsUpTo(k) ==
    IF k = 0 THEN <<>>
    ELSE SentItemsUpTo(k - 1) \o (IF TypeAt(k) = "NODES" THEN emitted[k].body.items ELSE <<>>)

SentItems == SentItemsUpTo(Len(emitted))

\* the positions in emitted of the IMAGE_CHUNK envelopes of node i, ascending
ChunksOf(i) == SortedSeq({k \in Positions("IMAGE_CHUNK") : emitted[k].body.nodeId = i})

\* the bytes carried by the envelopes at positions ks
RECURSIVE SumLens(_)

SumLens(ks) == IF ks = <<>> THEN 0 ELSE emitted[Head(ks)].body.len + SumLens(Tail(ks))

\* streamExtractedPage has got past streamImageChunks without an exception
ChunksStreamed == spc \in {"complete", "done"} /\ ~raised

\* streamExtractedPage has got past streamNodes without an exception
NodesStreamed == spc \in {"chunks", "complete", "done"} /\ ~raised

\* C11: the envelopes of a session carry the sequence numbers 0, 1, 2, ... in
\* send order, whatever their type, so no number is used twice.
C11_SequenceNumbers ==
    \A k \in 1..Len(emitted) : emitted[k].sequenceNumber = k - 1

\* C11 witness: a finished session that sent TOKENS, FONTS, PROGRESS, NODES,
\* IMAGE_CHUNK and COMPLETE envelopes.
C11_Witness ==
    /\ spc = "done"
    /\ \A t \in {"TOKENS", "FONTS", "PROGRESS", "NODES", "IMAGE_CHUNK", "COMPLETE"} :
          Positions(t) # {}

\* C12: the IMAGE_CHUNK envelopes of a chunked item carry chunkIndex 0, 1, ...
\* in ascending order with nothing sent in between, each with the totalChunks
\* = ceil(totalSize / chunkSize) of the item's descriptor and at most chunkSize
\* bytes; once streamImageChunks has returned there are exactly totalChunks of
\* them and their lengths sum to totalSize.  No other item gets a chunk.
C12_ChunkSequence ==
    /\ \A k \in Positions("IMAGE_CHUNK") : nodes[emitted[k].body.nodeId].hasRef
    /\ \A i \in 1..Len(nodes) :
          nodes[i].hasRef =>
              LET ks == ChunksOf(i)
                  ref == nodes[i].ref
              IN /\ ref.totalChunks = CeilDiv(ref.totalSize, ref.chunkSize)
                 /\ Len(ks) <= ref.totalChunks
                 /\ \A j \in 1..Len(ks) :
                       /\ emitted[ks[j]].body.chunkIndex = j - 1
                       /\ emitted[ks[j]].body.totalChunks = ref.totalChunks
                       /\ emitted[ks[j]].body.len <= ref.chunkSize
                 /\ \A j \in 1..(Len(ks) - 1) : ks[j + 1] = ks[j] + 1
                 /\ ChunksStreamed =>
                       /\ Len(ks) = ref.totalChunks
                       /\ SumLens(ks) = ref.totalSize

\* C12 witness: two chunked items of two chunks each have been streamed.
C12_Witness ==
    /\ ChunksStreamed
    /\ \E i, j \in 1..Len(nodes) :
          /\ i # j
          /\ nodes[i].hasRef /\ Len(ChunksOf(i)) = 2
          /\ nodes[j].hasRef /\ Len(ChunksOf(j)) = 2

\* C13 as claimed: in a NODES envelope a chunked item carries its descriptor
\* and no image bytes, and an item that carries inline bytes has no descriptor.
C13_NoBytesOfChunkedItem ==
    \A j \in 1..Len(SentItems) :
        /\ SentItems[j].hasRef => (SentItems[j].data = Absent /\ SentItems[j].buf = Absent)
        /\ SentItems[j].data # Absent => ~SentItems[j].hasRef

\* the number of NODES envelopes sent
NodesEnvelopes == Cardinality(Positions("NODES"))

\* C14: the NODES envelopes carry the items in original order, each item once,
\* 50 per envelope except possibly the last; once streamNodes has returned
\* there are ceil(n / 50) envelopes and their concatenation is the whole list.
C14_Batches ==
    /\ \A j \in 1..Len(SentItems) :
          SentItems[j].id = j /\ SentItems[j].type = nodes[j].type
    /\ Len(SentItems) <= Len(nodes)
    /\ NodesEnvelopes = CeilDiv(Len(SentItems), BATCH_SIZE)
    /\ \A k \in Positions("NODES") :
          /\ Len(emitted[k].body.items) \in 1..BATCH_SIZE
          /\ Len(emitted[k].body.items) < BATCH_SIZE =>
                Len(SentItemsUpTo(k)) = Len(nodes)
    /\ NodesStreamed =>
          /\ Len(SentItems) = Len(nodes)
          /\ NodesEnvelopes = CeilDiv(Len(nodes), BATCH_SIZE)

\* C14 witness: a list of 2 * 50 + 1 items went out in three envelopes.
C14_Witness ==
    /\ NodesStreamed
    /\ Len(nodes) = 2 * BATCH_SIZE + 1
    /\ NodesEnvelopes = 3

\* the items whose media fetch failed
FailedIds == {i \in 1..Len(nodes) : nodes[i].proc = "error"}

\* C15: an item whose fetch failed is sent in NODES with neither inline bytes
\* nor a descriptor, gets no IMAGE_CHUNK, is not counted in COMPLETE's
\* inlineImages or streamedImages, and makes stats.failedImages non-zero.
C15_FailedItem ==
    \A i \in FailedIds :
        /\ stats.failedImages > 0
        /\ \A j \in 1..Len(SentItems) :
              SentItems[j].id = i => (SentItems[j].data = Absent /\ ~SentItems[j].hasRef)
        /\ NodesStreamed => \E j \in 1..Len(SentItems) : SentItems[j].id = i
        /\ \A k \in Positions("IMAGE_CHUNK") : emitted[k].body.nodeId # i
        /\ \A k \in Positions("COMPLETE") :
              /\ emitted[k].body.inlineImages =
                    Cardinality({n \in 1..Len(nodes) : IsInline(nodes[n])})
              /\ emitted[k].body.streamedImages =
                    Cardinality({n \in 1..Len(nodes) : IsChunked(nodes[n])})

\* C15 witness: a session with one failed image and one chunked image has
\* sent COMPLETE.
C15_Witness ==
    /\ spc = "done"
    /\ Positions("COMPLETE") # {}
    /\ FailedIds # {}
    /\ \E n \in 1..Len(nodes) : IsChunked(nodes[n])

\* C17: once ERROR has been sent nothing is sent after it, so there is at most
\* one; a session in which an error was raised ends with it, a session
\* without has none; and what was sent before stays as it was.
C17_ErrorLast ==
    /\ [](/\ \A k \in Positions("ERROR") : k = Len(emitted)
          /\ (raised /\ spc = "done") => Positions("ERROR") # {}
          /\ ~raised => Positions("ERROR") = {})
    /\ [][/\ Len(emitted') >= Len(emitted)
          /\ SubSeq(emitted', 1, Len(emitted)) = emitted]_vars

\* C17 witness: an error was raised after envelopes had been sent, and the
\* session ended with ERROR.
C17_Witness ==
    /\ raised
    /\ spc = "done"
    /\ Len(emitted) >= 2
    /\ TypeAt(Len(emitted)) = "ERROR"

\* C18 as claimed, on the sender: when streamExtractedPage has returned, a
\* COMPLETE envelope has been emitted for the consumer to dispatch.
C18_CompleteReached ==
    spc = "done" => Positions("COMPLETE") # {}

Settled ==
    /\ rxPc = "over"
    /\ fin.pc = "done"
    /\ nbPc = "done"
    /\ \A id \in ItemIds : matTasks[id] = 0

RealIds == {id \in ItemIds : made[id].real > 0}

PlaceholderIds == {id \in ItemIds : made[id].placeholder > 0}

SkippedIds == {id \in ItemIds : made[id].skipped > 0}

\* C2 as claimed, at the end of a session: once COMPLETE has been handled and
\* every handler has ended, nothing is pending, every item id of the NODES
\* envelope is in exactly one of real / placeholder / skipped, and the sizes of
\* the three sets sum to the number of item ids.
C2_EveryItemSettled ==
    Settled =>
        /\ pending = {}
        /\ RealIds \cup PlaceholderIds \cup SkippedIds = ItemIds
        /\ RealIds \cap PlaceholderIds = {}
        /\ RealIds \cap SkippedIds = {}
        /\ PlaceholderIds \cap SkippedIds = {}
        /\ Cardinality(RealIds) + Cardinality(PlaceholderIds) + Cardinality(SkippedIds)
              = Len(items)

\* C16 as claimed: an item whose media fetch failed on the sender has got a
\* placeholder from finalization once the session has ended.
C16_PlaceholderForFailed ==
    Settled => \A id \in ItemIds : items[id].failed => made[id].placeholder > 0

\* C19: finalization ends within its budget.  A sleep of the poll loop only
\* begins while time is left in the budget and something is pending; the step
\* in which handleStreamComplete returns gives every id still pending a
\* placeholder and leaves pendingImageNodes empty; and, the timer firing,
\* a finalization that is polling does return.
C19_FinalizationEnds ==
    /\ [](fin.pc = "sleep" => fin.sleepAt - fin.startTime < STREAM_ASSEMBLY_TIMEOUT_MS)
    /\ [][(fin.pc # "done" /\ fin'.pc = "done") =>
             /\ pending' = {}
             /\ \A id \in pending : made'[id].placeholder = made[id].placeholder + 1]_vars
    /\ (fin.pc = "sleep" ~> fin.pc = "done")

\* C19 witness: finalization polled, the budget elapsed with an item still
\* pending, and handleStreamComplete returned having given it a placeholder.
C19_Witness ==
    /\ fin.pc = "done"
    /\ now - fin.startTime >= STREAM_ASSEMBLY_TIMEOUT_MS
    /\ fin.startTime > 0
    /\ pending = {}
    /\ \E id \in ItemIds : made[id].placeholder = 1 /\ made[id].real = 0

C22_ReceiverCancellation ==
    (rxPc = "closed") ~> (pending = {} /\ DOMAIN buffers = {})

\* the image node at position i has been through processImageForNode and the
\* callback of processAllImages: it carries inline bytes or a chunk
\* descriptor, or its failure is recorded and it carries neither
ImageSettled(i) ==
    \/ IsInline(nodes[i])
    \/ IsChunked(nodes[i])
    \/ nodes[i].proc = "error" /\ nodes[i].data = Absent /\ ~nodes[i].hasRef

C24_StatsAccount ==
    /\ inflight = {} =>
          stats.totalImages = stats.inlineImages + stats.streamedImages + stats.failedImages
    /\ \A k \in Positions("COMPLETE") :
          LET sent == SentItemsUpTo(k)
          IN /\ emitted[k].body.inlineImages =
                   Cardinality({j \in 1..Len(sent) : sent[j].data # Absent})
             /\ emitted[k].body.streamedImages =
                   Cardinality({j \in 1..Len(sent) : sent[j].hasRef})
             /\ emitted[k].body.totalNodes = Len(sent)
             /\ emitted[k].body.totalImages =
                   emitted[k].body.inlineImages + emitted[k].body.streamedImages
                       + stats.failedImages

\* C24 witness: COMPLETE has been sent in a session of two images, one
\* failed and one streamed in chunks.
C24_Witness ==
    /\ Positions("COMPLETE") # {}
    /\ stats.totalImages = 2
    /\ stats.failedImages = 1
    /\ stats.streamedImages = 1

(***************************************************************************)
(* Claims about the normalizer's conversion                                *)
(***************************************************************************)

\* C25 as claimed: whenever fetchAndConvert returns success for a source
\* detected as webp, avif or unknown, the returned bytes are the transcoded
\* PNG and convertedFormat is 'png'; a source of another format that needs
\* no resize comes back unchanged with convertedFormat = originalFormat.
C25_Canonicalized ==
    (norm.pc = "done" /\ norm.result.success) =>
        LET r == norm.result
            lossy == r.originalFormat \in {"webp", "avif", "unknown"}
            fits == norm.dims[1] <= MAX_IMAGE_DIMENSION /\ norm.dims[2] <= MAX_IMAGE_DIMENSION
        IN /\ lossy =>
                 (r.buffer.enc = "png" /\ r.buffer.encodes = 1 /\ r.convertedFormat = "png")
           /\ (~lossy /\ fits) =>
                 (r.buffer = SourceBuffer /\ r.convertedFormat = r.originalFormat)

(***************************************************************************)
(* Claims about the interleaving of the plugin's handlers                  *)
(***************************************************************************)

\* every IMAGE_CHUNK of the item has been dispatched (first deliveries only
\* happen after NODES and before COMPLETE)
AllChunksReceived(id) == \A idx \in 0..(items[id].total - 1) : <<id, idx>> \in delivered

\* C26 as claimed, at the end of a session: a chunked item whose NODES
\* envelope and then all of whose chunks were received before COMPLETE has
\* left the Pending Item Table, is on the page once with its assembled bytes
\* and not as a placeholder, and an IMAGE_ASSEMBLED notification was posted
\* for it (the case of a materialization that itself fails is left out).
C26_ChunkedItemReal ==
    Settled =>
        \A id \in ItemIds :
            (items[id].chunked /\ AllChunksReceived(id) /\ made[id].skipped = 0) =>
                /\ id \notin pending
                /\ made[id].real = 1
                /\ made[id].placeholder = 0
                /\ made[id].assembled >= 1

\* C27 as claimed: envelopes are applied in arrival order. While the
\* dispatch of the NODES envelope is not finished no later IMAGE_CHUNK or
\* COMPLETE has had any effect; and from the start of finalization on,
\* every chunked item of the NODES envelope is in the Pending Item Table or
\* has been materialized (or given its placeholder).
C27_ArrivalOrder ==
    /\ nbPc = "await" => (delivered = {} /\ fin.pc = "none")
    /\ fin.pc # "none" =>
          \A id \in ItemIds :
              items[id].chunked =>
                  \/ id \in pending
                  \/ made[id].real + made[id].placeholder + made[id].skipped > 0

\* handleStreamNodeBatch's loop has gone past the item at position id
LoopPast(id) == nbPc = "done" \/ (nbPc = "await" /\ nbPos > id)

\* C28: on a NODES envelope a chunked item is stored in the Pending Item
\* Table when the loop reaches it, is never materialized by the NODES handler
\* and gets its real object only once all its chunks are in (it leaves the
\* table only with an object, a null result or a placeholder); every other
\* item is never pending, is materialized by the handler in its turn, and is
\* recorded in the materialized-objects map under its id exactly when its
\* materialization yielded an object.
C28_NodesDispatch ==
    \A id \in ItemIds :
        IF items[id].chunked
        THEN /\ LoopPast(id) =>
                   \/ id \in pending
                   \/ made[id].real + made[id].placeholder + made[id].skipped > 0
             /\ ~LoopPast(id) => (id \notin pending /\ made[id] = NoOutcome)
             /\ (made[id].real > 0 \/ matTasks[id] > 0) => AllChunksReceived(id)
        ELSE /\ id \notin pending
             /\ made[id].placeholder = 0
             /\ matTasks[id] = 0
             /\ LoopPast(id) => made[id].real + made[id].skipped = 1
             /\ ~LoopPast(id) => made[id] = NoOutcome
             /\ made[id].real = 1 <=> (id \in DOMAIN created /\ created[id] = "real")

\* C28 witness: the NODES handler has ended; an item was materialized and
\* recorded, a chunked item waits in the table with nothing made for it and
\* its chunks not yet all in.
C28_Witness ==
    /\ nbPc = "done"
    /\ \E id \in ItemIds :
          ~items[id].chunked /\ made[id].real = 1 /\ id \in DOMAIN created
    /\ \E id \in ItemIds :
          /\ items[id].chunked
          /\ id \in pending
          /\ made[id] = NoOutcome
          /\ ~AllChunksReceived(id)

(***************************************************************************)
(* Claims about the life of a Reassembly Buffer entry                      *)
(***************************************************************************)

\* C29 as claimed: complete and expired are terminal. An id whose entry has
\* been assembled or evicted has no entry again, so no later chunk for it
\* can complete one.
C29_EntryTerminal ==
    \A id \in ended : id \notin DOMAIN buffers

\* C30: in every state of a session, whatever the interleaving of chunk
\* handling, redelivery and sweeps, each buffer entry's receivedChunks is
\* the number of distinct chunk indices it stores, every stored index is in
\* [0, totalChunks), the count does not exceed totalChunks, and totalChunks
\* is the value the item's first chunk carried.
C30_EntryConsistent ==
    \A id \in DOMAIN buffers :
        LET b == buffers[id]
        IN /\ b.receivedChunks = Cardinality(DOMAIN b.chunks)
           /\ DOMAIN b.chunks \subseteq 0..(b.totalChunks - 1)
           /\ b.receivedChunks <= b.totalChunks
           /\ b.totalChunks = items[id].total

\* C30 witness: during the finalization poll, after a sweep has run and a
\* chunk has been delivered twice, an entry holds one of its two chunks.
C30_Witness ==
    /\ fin.pc = "sleep"
    /\ fin.sleepAt > fin.startTime
    /\ redeliveries >= 1
    /\ \E id \in DOMAIN buffers :
          /\ buffers[id].totalChunks = 2
          /\ buffers[id].receivedChunks = 1
          /\ <<id, 0>> \in delivered

(***************************************************************************)
(* Claims about finalization, fan-out, progress and errors                 *)
(***************************************************************************)

\* a sleep of the finalization poll loop ends in this step
PollCycle == fin.pc = "sleep" /\ fin' # fin

\* C31: each poll cycle of finalization sweeps the Reassembly Buffer once
\* (at the instant the sleep ends); every id the sweep reports that is still
\* pending gets one placeholder, is recorded in the materialized-objects map
\* and leaves the table; a reported id that is not pending gets nothing.
C31_SweepPlaceholders ==
    [][PollCycle =>
         LET timedOut == cleanupIds(buffers, now')
         IN /\ buffers' = cleanupBufs(buffers, now')
            /\ \A id \in timedOut \cap pending :
                  /\ made'[id].placeholder = made[id].placeholder + 1
                  /\ id \in DOMAIN created' /\ created'[id] = "placeholder"
                  /\ id \notin pending'
            /\ \A id \in timedOut \ pending :
                  /\ made'[id] = made[id]
                  /\ created' # created => id \notin DOMAIN created' \ DOMAIN created]_vars

\* C31 witness: the poll loop is still running after a cycle whose sweep
\* evicted the entry of a pending item, which got its placeholder.
C31_Witness ==
    /\ fin.pc = "sleep"
    /\ fin.sleepAt > fin.startTime
    /\ \E id \in ItemIds :
          /\ items[id].chunked
          /\ made[id].placeholder = 1
          /\ id \notin pending
          /\ id \notin DOMAIN buffers
          /\ id \in DOMAIN created

\* C32: bounded fan-out. At any time at most max(1, MAX_CONCURRENT_IMAGES)
\* Normalizer operations are in flight, all of them on items not processed
\* before; operations are started only when none is in flight; and once
\* processAllImages is over every media-bearing item has been started
\* exactly once.
C32_BoundedFanOut ==
    /\ [](/\ Cardinality(inflight) <= Max(1, cfg.concurrency)
          /\ \A i \in inflight : nodes[i].proc = "none")
    /\ [][inflight' \ inflight # {} =>
             /\ inflight = {}
             /\ \A i \in inflight' : nodes[i].proc = "none" /\ nodes[i].imageSource]_vars
    /\ [](spc \in {"tokens", "fonts", "nodes", "chunks", "complete", "catch", "done"} =>
             /\ stats.totalImages = Len(ImageNodes(nodes))
             /\ \A k \in 1..Len(ImageNodes(nodes)) : nodes[ImageNodes(nodes)[k]].proc # "none")

\* C32 witness: with a fan-out of one, the second wave is in flight with the
\* second image while the first image is settled.
C32_Witness ==
    /\ spc = "waveWait"
    /\ Max(1, cfg.concurrency) = 1
    /\ Len(nodes) = 2
    /\ inflight = {2}
    /\ nodes[1].proc # "none"

\* the positions in emitted of the PROGRESS envelopes of stage
\* processing_images, ascending
WaveProgress ==
    SortedSeq({k \in Positions("PROGRESS") : emitted[k].body.stage = "processing_images"})

\* the image items processImageForNode has settled
SettledImages == {i \in 1..Len(nodes) : nodes[i].imageSource /\ nodes[i].proc # "none"}

\* C33: one PROGRESS {stage: processing_images} per finished wave. Its total
\* is the number of media-bearing items; when it is emitted its current is
\* the number of items processed so far; current grows strictly from one to
\* the next and is total in the last one; without media-bearing items there
\* is none.
C33_WaveProgress ==
    /\ [](LET wp == WaveProgress
              total == Len(ImageNodes(nodes))
          IN /\ \A j \in 1..Len(wp) :
                   /\ emitted[wp[j]].body.total = total
                   /\ emitted[wp[j]].body.current = Min(j * Max(1, cfg.concurrency), total)
                   /\ j > 1 => emitted[wp[j]].body.current > emitted[wp[j - 1]].body.current
             /\ spc \in {"waveStart", "waveWait"} => Len(wp) * Max(1, cfg.concurrency) = wave
             /\ spc \in {"tokens", "fonts", "nodes", "chunks", "complete", "catch", "done"} =>
                   /\ Len(wp) = CeilDiv(total, Max(1, cfg.concurrency))
                   /\ total > 0 => emitted[wp[Len(wp)]].body.current = total
             /\ total = 0 => Len(wp) = 0)
    /\ [][(Len(emitted') > Len(emitted) /\ spc = "waveWait") =>
             /\ Len(emitted') = Len(emitted) + 1
             /\ emitted'[Len(emitted')].type = "PROGRESS"
             /\ emitted'[Len(emitted')].body.current = Cardinality(SettledImages)]_vars

\* C33 witness: two waves of one item each are over; two PROGRESS envelopes
\* with current 1 and 2 of total 2 have been emitted.
C33_Witness ==
    /\ spc = "tokens"
    /\ Len(WaveProgress) = 2
    /\ emitted[WaveProgress[1]].body.current = 1
    /\ emitted[WaveProgress[2]].body.current = 2
    /\ emitted[WaveProgress[2]].body.total = 2

\* the step in which an ERROR envelope is dispatched (COMPLETE, the other
\* envelope that ends the stream, starts finalization)
ErrorDispatched == rxPc # "over" /\ rxPc' = "over" /\ fin' = fin

\* C34: dispatching ERROR leaves the materialized-objects map, the Pending
\* Item Table, the Reassembly Buffer and the processed counter as they were.
C34_ErrorNoEffect ==
    [][ErrorDispatched =>
         /\ created' = created
         /\ pending' = pending
         /\ buffers' = buffers
         /\ processed' = processed
         /\ made' = made]_vars

\* C34 witness: ERROR has been dispatched in a session that had materialized
\* an item, deferred another and buffered a chunk; all of it is still there.
C34_Witness ==
    /\ rxPc = "over"
    /\ fin.pc = "none"
    /\ pending # {}
    /\ DOMAIN created # {}
    /\ DOMAIN buffers # {}
    /\ processed > 0

\* C35: a failed materialization (createEnhancedNode returns null) stops
\* nothing. In the step in which it fails inside the NODES handler the loop
\* moves on past the item; when the handler has ended every item it
\* materializes itself has its object or its recorded failure; and when it
\* fails in createPendingImageNode the id leaves the Pending Item Table in
\* that step.
C35_FailureContained ==
    /\ [][\A id \in ItemIds :
             made'[id].skipped > made[id].skipped =>
                 IF items[id].chunked
                 THEN id \notin pending' /\ matTasks'[id] = matTasks[id] - 1
                 ELSE nbPc' = "done" \/ (nbPc' = "await" /\ nbPos' > id)]_vars
    /\ [](nbPc = "done" =>
             \A id \in ItemIds : ~items[id].chunked => made[id].real + made[id].skipped = 1)

\* C35 witness: the first item of the batch failed to materialize; the loop
\* went on and deferred the second, chunked item; its chunks were dispatched,
\* its materialization after assembly failed too and it is no longer
\* pending; COMPLETE was handled to its end.
C35_Witness ==
    /\ Settled
    /\ Len(items) = 2
    /\ ~items[1].chunked /\ made[1].skipped = 1
    /\ items[2].chunked /\ made[2].skipped = 1 /\ made[2].placeholder = 0
    /\ pending = {}

(***************************************************************************)
(* The scraper server: wss.on('connection') and the handler of             *)
(* ws.on('message') (src/scraper/src/server.ts 187-242)                    *)
(*                                                                         *)
(* SpecConn: one connection on which the client sends up to MaxRequests    *)
(* extraction requests.  The pages hold no image node; what the Controller *)
(* does with images is SpecCtl's subject.                                  *)
(***************************************************************************)
MaxRequests == 2     \* messages the client sends on the connection

\* a message not received yet
NoRequest == [pc |-> "none", sequenceNumber |-> 0, n |-> 0, bi |-> 0, tokens |-> FALSE]

\* the lengths of data.nodes: none, one batch, two batches
PageSizes == {0, 1, BATCH_SIZE + 1}

\* ws.send(JSON.stringify(message)) by the handler of message r
WsSend(ch, r, type, seq) == Append(ch, [req |-> r, type |-> type, sequenceNumber |-> seq])

\* the envelopes streamExtractedPage of request q sends from the point where
\* streamNodes' loop tests i < nodes.length up to its next sleep(50) or its
\* return: one NODES and the sleep, or (the loop over, streamImageChunks
\* finding no chunked item) COMPLETE
StreamOn(q, r, ch) ==
    IF q.bi < q.n
    THEN [req |-> [q EXCEPT !.pc = "sleep", !.bi = @ + BATCH_SIZE,
                            !.sequenceNumber = @ + 1],
          channel |-> WsSend(ch, r, "NODES", q.sequenceNumber)]
    ELSE [req |-> [q EXCEPT !.pc = "done", !.sequenceNumber = @ + 1],
          channel |-> WsSend(ch, r, "COMPLETE", q.sequenceNumber)]

\* ws.on('message'): the handler of the r-th message runs up to its await of
\* extractBasic/extractMaximum/extractHybrid; a message that is not JSON is
\* answered with the unnumbered error message
OnMessage(r, valid) ==
    /\ r \in 1..MaxRequests
    /\ conn.req[r].pc = "none"
    /\ r > 1 => conn.req[r - 1].pc # "none"
    /\ conn' = IF valid
               THEN [conn EXCEPT !.req[r].pc = "extract"]
               ELSE [conn EXCEPT !.req[r].pc = "done",
                                 !.channel = WsSend(@, r, "error", Absent)]

\* the extraction of request r settles.  Fulfilled: the handler makes a new
\* StreamController(ws), whose sequenceNumber is 0, and streamExtractedPage
\* runs up to its await of processAllImages.  Rejected: the inner catch
\* answers with the unnumbered error message.
ExtractSettles(r, ok, n, tokens) ==
    /\ r \in 1..MaxRequests
    /\ conn.req[r].pc = "extract"
    /\ conn' = IF ok
               THEN [conn EXCEPT !.req[r] = [pc |-> "images", sequenceNumber |-> 0, n |-> n,
                                            bi |-> 0, tokens |-> tokens]]
               ELSE [conn EXCEPT !.req[r].pc = "done",
                                 !.channel = WsSend(@, r, "error", Absent)]

\* processAllImages resolves: TOKENS if the page has tokens, then streamNodes
\* up to its first sleep
ImagesResolve(r) ==
    /\ r \in 1..MaxRequests
    /\ conn.req[r].pc = "images"
    /\ LET q == conn.req[r]
           q1 == IF q.tokens THEN [q EXCEPT !.sequenceNumber = @ + 1] ELSE q
           ch1 == IF q.tokens THEN WsSend(conn.channel, r, "TOKENS", q.sequenceNumber)
                  ELSE conn.channel
           out == StreamOn(q1, r, ch1)
       IN conn' = [conn EXCEPT !.req[r] = out.req, !.channel = out.channel]

\* the timer of streamNodes' sleep(50) fires: the next batch, or COMPLETE;
\* when cloneForTransport throws on the next batch, the catch sends ERROR
SleepResolves(r, throws) ==
    /\ r \in 1..MaxRequests
    /\ conn.req[r].pc = "sleep"
    /\ throws => conn.req[r].bi < conn.req[r].n
    /\ LET q == conn.req[r]
           out == StreamOn(q, r, conn.channel)
       IN conn' = IF throws
                  THEN [conn EXCEPT !.req[r].pc = "done", !.req[r].sequenceNumber = @ + 1,
                                    !.channel = WsSend(@, r, "ERROR", q.sequenceNumber)]
                  ELSE [conn EXCEPT !.req[r] = out.req, !.channel = out.channel]

InitConn ==
    /\ buffers = <<>> /\ now = 0 /\ last = NoCall /\ done = {} /\ ended = {} /\ calls = 0
    /\ RtOff
    /\ CtlOff
    /\ RxOff
    /\ NmOff
    /\ LgOff
    /\ conn = [req |-> [r \in 1..MaxRequests |-> NoRequest], channel |-> <<>>]

NextConn ==
    /\ UNCHANGED <<asmVars, rtVars, nmVars, lgVars, ctlVars, rxVars>>
    /\ \/ \E r \in 1..MaxRequests, valid \in BOOLEAN : OnMessage(r, valid)
       \/ \E r \in 1..MaxRequests, ok \in BOOLEAN, n \in PageSizes, tokens \in BOOLEAN :
             ExtractSettles(r, ok, IF ok THEN n ELSE 0, ok /\ tokens)
       \/ \E r \in 1..MaxRequests : ImagesResolve(r)
       \/ \E r \in 1..MaxRequests, throws \in BOOLEAN : SleepResolves(r, throws)

SpecConn == InitConn /\ [][NextConn]_vars

\* the envelopes of the streaming sessions on the channel (the unnumbered
\* error message belongs to no session)
SessionEnvelopes == SelectSeq(conn.channel, LAMBDA e : e.type # "error")

\* a session is active from its first envelope to its COMPLETE or ERROR
ActiveSessions ==
    {r \in DOMAIN conn.req :
        /\ \E k \in DOMAIN conn.channel : conn.channel[k].req = r /\ conn.channel[k].type # "error"
        /\ conn.req[r].pc # "done"}

\* C36: on one connection at most one streaming session is active at a
\* time, the envelopes of two requests are never interleaved on the channel,
\* and the sequence numbers observed are strictly increasing from a
\* session's first envelope to its COMPLETE or ERROR
C36_OneSessionPerConnection ==
    LET ch == SessionEnvelopes
    IN /\ Cardinality(ActiveSessions) <= 1
       /\ \A i, j, k \in DOMAIN ch :
             (i < j /\ j < k /\ ch[i].req = ch[k].req) => ch[j].req = ch[i].req
       /\ \A i \in DOMAIN ch :
             (i < Len(ch) /\ ch[i].type \notin {"COMPLETE", "ERROR"}) =>
                 ch[i + 1].sequenceNumber > ch[i].sequenceNumber


(***************************************************************************)
(* SpecRxNext: SpecRx followed by the TOKENS envelope of the next session  *)
(***************************************************************************)
\* no handler of the session is suspended and no finalization is polling
Quiescent ==
    /\ nbPc # "await"
    /\ \A id \in DOMAIN matTasks : matTasks[id] = 0
    /\ fin.pc \in {"none", "done"}

\* resetStreamState(), on the three pieces of stream state of the model
resetStreamState ==
    /\ pending' = {}
    /\ created' = <<>>
    /\ processed' = 0

\* the TOKENS envelope of the next session is dispatched after the session
\* has ended (COMPLETE or ERROR dispatched, or its channel closed) and every
\* handler of it has returned: resetStreamState, then the await of
\* createFigmaVariables
TokensOfNextSession ==
    /\ rxPc \in {"over", "closed"}
    /\ Quiescent
    /\ rxPc' = "next"
    /\ resetStreamState
    /\ UNCHANGED <<asmVars, items, lateStart, delivered, redeliveries, made, nbPc, nbPos,
                   matTasks, fin>>

NextRxNext ==
    \/ NextRx
    \/ TokensOfNextSession /\ UNCHANGED <<rtVars, nmVars, cnVars, lgVars, ctlVars>>

SpecRxNext == InitRx /\ [][NextRxNext]_vars

\* C37: once the TOKENS envelope that starts a new session has been
\* dispatched, the Pending Item Table, the materialized-objects map, the
\* processed counter and the Reassembly Buffer hold nothing of the previous
\* session
C37_NoLeakBetweenSessions ==
    rxPc = "next" =>
        /\ pending = {}
        /\ DOMAIN created = {}
        /\ processed = 0
        /\ DOMAIN buffers = {}

\* C38: when finalization returns, the Reassembly Buffer holds no entry for
\* any item id of the session
C38_NoEntryAfterFinalization ==
    fin.pc = "done" => \A id \in DOMAIN items : id \notin DOMAIN buffers

\* no createEnhancedNode call of the stream handlers is awaited
NoMaterializationInFlight ==
    /\ nbPc # "await"
    /\ \A id \in DOMAIN matTasks : matTasks[id] = 0

MaxLegacyNodes == 22   \* nodes arriving over all node_chunk messages

\* nodeBuffer.splice(0, 20)
LEGACY_BATCH == 20

\* the lengths of legacy.data
ChunkLengths == {0, 1, 2, LEGACY_BATCH + 1}

\* mutant: a node_chunk starts a loop whether or not one is running
StartsLoopAlways(isProc) == TRUE

\* if (!isProcessing)
StartsLoop(isProc) == ~isProc

\* processBufferedNodes at the test of its while: a batch is spliced off and
\* the loop suspends at the await of the batch's first createEnhancedNode, or
\* the loop ends and isProcessing is reset; others are the other loops
WhileTest(lg, others) ==
    IF lg.nodeBuffer # <<>>
    THEN LET k == Min(LEGACY_BATCH, Len(lg.nodeBuffer))
         IN [lg EXCEPT !.nodeBuffer = SubSeq(@, k + 1, Len(@)),
                       !.loops = others \cup {[batch |-> SubSeq(lg.nodeBuffer, 1, k),
                                               pos |-> 1, pc |-> "node"]}]
    ELSE [lg EXCEPT !.isProcessing = FALSE, !.loops = others]

\* case 'node_chunk': the k nodes of legacy.data are pushed; when no loop is
\* marked as running, one is started and runs to its first await
NodeChunk(k) ==
    /\ legacy.arrived + k <= MaxLegacyNodes
    /\ LET pushed == [legacy EXCEPT
                         !.nodeBuffer = @ \o [i \in 1..k |-> legacy.arrived + i],
                         !.arrived = @ + k,
                         !.late = IF legacy.loops # {} THEN @ + k ELSE @]
       IN legacy' = IF StartsLoop(legacy.isProcessing)
                    THEN WhileTest([pushed EXCEPT !.isProcessing = TRUE], legacy.loops)
                    ELSE pushed

\* createEnhancedNode settles for the node loop l awaits, with an object (r)
\* or with null (it catches every error of its body): the for loop goes on to
\* the next node of the batch, or to the sleep after the batch
ResumeLegacy(l, r) ==
    /\ l \in legacy.loops
    /\ l.pc = "node"
    /\ LET next == IF l.pos < Len(l.batch) THEN [l EXCEPT !.pos = @ + 1]
                   ELSE [l EXCEPT !.pc = "sleep"]
       IN legacy' = [legacy EXCEPT !.built = Append(@, l.batch[l.pos]),
                                   !.nulls = IF r THEN @ ELSE @ + 1,
                                   !.loops = (@ \ {l}) \cup {next}]

\* the timer of the loop's setTimeout(r, 10) fires: back to the while test
SleepEnds(l) ==
    /\ l \in legacy.loops
    /\ l.pc = "sleep"
    /\ legacy' = WhileTest(legacy, legacy.loops \ {l})

InitLegacy ==
    /\ buffers = <<>> /\ now = 0 /\ last = NoCall /\ done = {} /\ ended = {} /\ calls = 0
    /\ RtOff
    /\ CtlOff
    /\ RxOff
    /\ NmOff
    /\ CnOff
    /\ LgOff

NextLegacy ==
    /\ UNCHANGED <<asmVars, rtVars, nmVars, cnVars, ctlVars, rxVars>>
    /\ \/ \E k \in ChunkLengths : NodeChunk(k)
       \/ \E l \in legacy.loops, r \in BOOLEAN : ResumeLegacy(l, r)
       \/ \E l \in legacy.loops : SleepEnds(l)

SpecLegacy == InitLegacy /\ [][NextLegacy]_vars

\* the nodes a loop has spliced off and not yet passed to createEnhancedNode
Unbuilt(l) == IF l.pc = "node" THEN SubSeq(l.batch, l.pos, Len(l.batch)) ELSE <<>>

\* C40: under any interleaving of node_chunk messages with the drain loop,
\* at most one processBufferedNodes loop runs; every node that arrived is
\* passed to createEnhancedNode exactly once and in arrival order (the nodes
\* built, then those of the running batch, then those buffered, are the
\* nodes that arrived, in order); and when no loop runs the buffer is empty,
\* every node has been built and isProcessing is false
C40_LegacyDrain ==
    /\ Cardinality(legacy.loops) <= 1
    /\ \A l \in legacy.loops :
          legacy.built \o Unbuilt(l) \o legacy.nodeBuffer = [i \in 1..legacy.arrived |-> i]
    /\ legacy.isProcessing <=> legacy.loops # {}
    /\ legacy.loops = {} =>
          /\ legacy.nodeBuffer = <<>>
          /\ legacy.built = [i \in 1..legacy.arrived |-> i]

\* a loop has ended after draining more than one batch, with nodes that
\* arrived while it ran and a node whose createEnhancedNode returned null
C40_Witness ==
    /\ legacy.loops = {}
    /\ legacy.arrived > LEGACY_BATCH
    /\ legacy.late > 0
    /\ legacy.nulls > 0
    /\ Len(legacy.built) = legacy.arrived

====
